---- MODULE Spec2Model ----
(***************************************************************************)
(* Model of scripts/create-new-sub-files.py: the validation-and-derivation *)
(* pipeline that scaffolds a Terragrunt subscription (landing zone).       *)
(*                                                                         *)
(* Python strings are TLA+ strings; a character is a string of length 1.   *)
(* A Python call that may raise is an operator returning a record          *)
(* [raised |-> <ErrorMessages member or exception name>, value |-> ...];   *)
(* raised = "none" is a normal return.                                     *)
(***************************************************************************)
EXTENDS Integers, Sequences, FiniteSets, TLC

VARIABLES
    inputs_dict,            \* main: json_file_as_dict of the current run
    pc,                     \* position of the current run in main / create_subscription_files
    choice,                 \* main: choice
    application_name,       \* create_subscription_files: application_name
    application_acronym,    \* create_subscription_files: application_acronym
    subscription_root_dir,  \* create_subscription_files: subscription_root_dir
    tenant_id,              \* generate_resources_content: tenant_id
    resources_content,      \* create_subscription_files: resources_content
    subscription_content,   \* create_subscription_files: subscription_content
    mandatory_tags,         \* generate_variables_content: mandatory_tags (text)
    variables_content,      \* create_subscription_files: variables_content
    raised,                 \* the exception that ended the current run, "none" otherwise
    dirs,                   \* file system: the directories that exist
    files,                  \* file system: path -> content of the files that exist
    file_i,                 \* create_subscription_files: position of the for loop over the files
    runs,                   \* number of runs of the script started so far
    user_input,             \* interactive mode: the last line returned by input()
    tag_values,             \* interactive mode: the tag values read so far by input()
    optional_tags           \* generate_variables_content: optional_tags (text)

vars == <<inputs_dict, pc, choice, application_name, application_acronym,
          subscription_root_dir, tenant_id, resources_content, subscription_content,
          mandatory_tags, variables_content, raised, dirs, files, file_i, runs,
          user_input, tag_values, optional_tags>>

-----------------------------------------------------------------------------
(* Bounds *)

\* number of times the script is run against the same file system
MaxRuns == 2

-----------------------------------------------------------------------------
(* Python values and strings *)

\* Python's None (choice = None, a function falling off its end)
None == "None"

\* a normal return of v
Return(v) == [raised |-> "none", value |-> v]

\* raise SubscriptionError(ErrorMessages.<e>.value), or another exception e
Raise(e) == [raised |-> e, value |-> None]

\* s[i-1] of Python, as a string of length 1
At(s, i) == IF i \in 1..Len(s) THEN SubSeq(s, i, i) ELSE ""

LowerAlphabet == "abcdefghijklmnopqrstuvwxyz"

UpperAlphabet == "ABCDEFGHIJKLMNOPQRSTUVWXYZ"

DigitAlphabet == "0123456789"

LowerSet == {At(LowerAlphabet, i) : i \in 1..Len(LowerAlphabet)}

UpperSet == {At(UpperAlphabet, i) : i \in 1..Len(UpperAlphabet)}

\* [0-9]; \d restricted to the ASCII digits
DigitSet == {At(DigitAlphabet, i) : i \in 1..Len(DigitAlphabet)}

\* characters str.strip() removes
WhitespaceSet == {" ", "\t", "\n", "\r"}

\* \w of the re module, restricted to ASCII
WordSet == LowerSet \cup UpperSet \cup DigitSet \cup {"_"}

LowerOf == [c \in UpperSet |->
              At(LowerAlphabet, CHOOSE i \in 1..Len(UpperAlphabet) : At(UpperAlphabet, i) = c)]

UpperOf == [c \in LowerSet |->
              At(UpperAlphabet, CHOOSE i \in 1..Len(LowerAlphabet) : At(LowerAlphabet, i) = c)]

IsCased(c) == c \in LowerSet \cup UpperSet

lowerChar(c) == IF c \in UpperSet THEN LowerOf[c] ELSE c

upperChar(c) == IF c \in LowerSet THEN UpperOf[c] ELSE c

\* the characters lo..hi of s.lower(); the range is halved to keep the
\* evaluation shallow, as in the other character-wise conversions below
lowerRange(s, lo, hi) ==
    LET part[a \in 1..(Len(s) + 1), b \in 0..Len(s)] ==
            IF a > b THEN ""
            ELSE IF a = b THEN lowerChar(At(s, a))
            ELSE LET mid == (a + b) \div 2
                 IN  part[a, mid] \o part[mid + 1, b]
    IN  part[lo, hi]

\* str.lower()
lower(s) == lowerRange(s, 1, Len(s))

upperRange(s, lo, hi) ==
    LET part[a \in 1..(Len(s) + 1), b \in 0..Len(s)] ==
            IF a > b THEN ""
            ELSE IF a = b THEN upperChar(At(s, a))
            ELSE LET mid == (a + b) \div 2
                 IN  part[a, mid] \o part[mid + 1, b]
    IN  part[lo, hi]

\* str.upper()
upper(s) == upperRange(s, 1, Len(s))

\* the i-th character of s.title(): a cased character is upper-cased after an
\* uncased one (or at the start) and lower-cased after a cased one
titleChar(s, i) ==
    LET c == At(s, i)
        previous_is_cased == i > 1 /\ IsCased(At(s, i - 1))
    IN  IF previous_is_cased THEN lowerChar(c) ELSE upperChar(c)

titleRange(s, lo, hi) ==
    LET part[a \in 1..(Len(s) + 1), b \in 0..Len(s)] ==
            IF a > b THEN ""
            ELSE IF a = b THEN titleChar(s, a)
            ELSE LET mid == (a + b) \div 2
                 IN  part[a, mid] \o part[mid + 1, b]
    IN  part[lo, hi]

\* str.title()
title(s) == titleRange(s, 1, Len(s))

RECURSIVE lstripFrom(_, _)
lstripFrom(s, i) ==
    IF i > Len(s) THEN ""
    ELSE IF At(s, i) \in WhitespaceSet THEN lstripFrom(s, i + 1)
    ELSE SubSeq(s, i, Len(s))

RECURSIVE rstripTo(_, _)
rstripTo(s, j) ==
    IF j < 1 THEN ""
    ELSE IF At(s, j) \in WhitespaceSet THEN rstripTo(s, j - 1)
    ELSE SubSeq(s, 1, j)

\* str.strip()
strip(s) == LET l == lstripFrom(s, 1) IN rstripTo(l, Len(l))

\* sub in s
Contains(s, sub) ==
    \E i \in 1..(Len(s) - Len(sub) + 1) : SubSeq(s, i, i + Len(sub) - 1) = sub

\* the '$' of the re module without MULTILINE: the end of the string, or just
\* before a newline that is the last character; Full(t) says that t is matched
\* by the pattern between '^' and '$'
MatchToEnd(s, Full(_)) ==
    \/ Full(s)
    \/ Len(s) > 0 /\ At(s, Len(s)) = "\n" /\ Full(SubSeq(s, 1, Len(s) - 1))

\* \b of the re module at the position before s[i] (i in 1..Len(s)+1)
WordBoundary(s, i) ==
    LET before == i > 1 /\ At(s, i - 1) \in WordSet
        after  == i <= Len(s) /\ At(s, i) \in WordSet
    IN  before # after

-----------------------------------------------------------------------------
(* Environment Catalog *)

\* the keys of ENVIRONMENT_MENU in insertion order
ENVIRONMENT_MENU_keys == <<"1", "2", "3", "4">>

ENVIRONMENT_MENU ==
    [k \in {"1", "2", "3", "4"} |->
        CASE k = "1" -> <<"dev", "infradev">>
          [] k = "2" -> <<"prod", "dev">>
          [] k = "3" -> <<"prod", "hom">>
          [] k = "4" -> <<"prod", "prod">>]

\* environment_data_valid with the membership tests in another order: the
\* application environment is tested before the infrastructure environment
environment_data_valid_app_first(environment) ==
    LET environment_list == {ENVIRONMENT_MENU[k] : k \in DOMAIN ENVIRONMENT_MENU}
    IN  IF environment \in environment_list THEN Return(TRUE)
        ELSE IF environment[2] \notin {v[2] : v \in environment_list}
             THEN Raise("APPLICATION_ENVIRONMENT_JSON")
        ELSE IF environment[1] \notin {v[1] : v \in environment_list}
             THEN Raise("INFRASTRUCTURE_ENVIRONMENT_JSON")
        ELSE Raise("ENVIRONMENT_JSON")

environment_data_valid(environment) ==
    LET environment_list == {ENVIRONMENT_MENU[k] : k \in DOMAIN ENVIRONMENT_MENU}
        infrastructure_environment_list == {v[1] : v \in environment_list}
        application_environment_list == {v[2] : v \in environment_list}
    IN  IF environment \in environment_list THEN Return(TRUE)
        ELSE IF environment[1] \notin infrastructure_environment_list
             THEN Raise("INFRASTRUCTURE_ENVIRONMENT_JSON")
        ELSE IF environment[2] \notin application_environment_list
             THEN Raise("APPLICATION_ENVIRONMENT_JSON")
        ELSE Raise("ENVIRONMENT_JSON")

\* the for loop of get_environment_data over ENVIRONMENT_MENU.items(), from the
\* i-th item on: the key of the first item equal to the pair, else None
RECURSIVE find_choice(_, _)
find_choice(environment, i) ==
    IF i > Len(ENVIRONMENT_MENU_keys) THEN None
    ELSE IF ENVIRONMENT_MENU[ENVIRONMENT_MENU_keys[i]] = environment
         THEN ENVIRONMENT_MENU_keys[i]
    ELSE find_choice(environment, i + 1)

\* get_environment_data without the .lower() of the two inputs
get_environment_data_no_lower(silent_mode, doc) ==
    LET infrastructure_environment == doc.infrastructure_environment
        application_environment == doc.application_environment
        c == find_choice(<<infrastructure_environment, application_environment>>, 1)
        valid == environment_data_valid(<<infrastructure_environment, application_environment>>)
    IN  IF valid.raised # "none" THEN valid
        ELSE Return(<<c, <<lower(infrastructure_environment), lower(application_environment)>>>>)

\* get_environment_data(silent_mode = True, inputs_dict)
get_environment_data(silent_mode, doc) ==
    LET infrastructure_environment == lower(doc.infrastructure_environment)
        application_environment == lower(doc.application_environment)
        c == find_choice(<<infrastructure_environment, application_environment>>, 1)
        valid == environment_data_valid(<<infrastructure_environment, application_environment>>)
    IN  IF valid.raised # "none" THEN valid
        ELSE Return(<<c, <<lower(infrastructure_environment), lower(application_environment)>>>>)

-----------------------------------------------------------------------------
(* Python dictionaries: a sequence of <<key, value>> pairs in insertion order *)

\* dict.get(key): the value of the key, None when the key is absent
dict_get(d, key) ==
    IF \E i \in 1..Len(d) : d[i][1] = key
    THEN d[CHOOSE i \in 1..Len(d) : d[i][1] = key][2]
    ELSE None

-----------------------------------------------------------------------------
(* Field Validators *)

\* the text between '^' and '$' of "^Example(?:[1-9]|[1-9]\d|[1-9]\d{2})$"
application_name_pattern(t) ==
    /\ Len(t) \in 8..10
    /\ SubSeq(t, 1, 7) = "Example"
    /\ At(t, 8) \in DigitSet \ {"0"}
    /\ \A i \in 9..Len(t) : At(t, i) \in DigitSet

application_name_valid(choice_, name, error_message) ==
    IF ENVIRONMENT_MENU[choice_][2] = "infradev"
    THEN IF MatchToEnd(title(name), application_name_pattern)
         THEN Return(TRUE)
         ELSE Raise(error_message)
    ELSE Return(TRUE)

\* get_application_name(silent_mode = True, choice, inputs_dict)
get_application_name(silent_mode, choice_, doc) ==
    LET name == title(doc.application_name)
        valid == application_name_valid(choice_, name, "APPLICATION_NAME_INFRADEV_JSON")
    IN  IF valid.raised # "none" THEN valid ELSE Return(name)

\* the text between '^' and '$' of "^[A-Z]{2}[0-9]$"
application_acronym_pattern(t) ==
    /\ Len(t) = 3
    /\ At(t, 1) \in UpperSet
    /\ At(t, 2) \in UpperSet
    /\ At(t, 3) \in DigitSet

application_acronym_valid(acronym, error_message) ==
    IF MatchToEnd(acronym, application_acronym_pattern)
    THEN Return(TRUE)
    ELSE Raise(error_message)

\* get_application_acronym(silent_mode = True, inputs_dict)
get_application_acronym(silent_mode, doc) ==
    LET acronym == upper(doc.application_acronym)
        valid == application_acronym_valid(acronym, "APPLICATION_ACRONYM_JSON")
    IN  IF valid.raised # "none" THEN valid ELSE Return(acronym)

\* the text between '^' and '$' of "^new\d{9}$"
tenant_id_infradev_pattern(t) ==
    /\ Len(t) = 12
    /\ SubSeq(t, 1, 3) = "new"
    /\ \A i \in 4..12 : At(t, i) \in DigitSet

\* the text between '^' and '$' of "^\d{12}$"
tenant_id_pattern(t) ==
    /\ Len(t) = 12
    /\ \A i \in 1..12 : At(t, i) \in DigitSet

tenant_id_valid(choice_, tenant, error_message_infradev, error_message) ==
    LET infradev == ENVIRONMENT_MENU[choice_][2] = "infradev"
        match_str == IF infradev
                     THEN MatchToEnd(tenant, tenant_id_infradev_pattern)
                     ELSE MatchToEnd(tenant, tenant_id_pattern)
    IN  IF match_str THEN Return(TRUE)
        ELSE IF infradev THEN Raise(error_message_infradev)
        ELSE Raise(error_message)

\* get_tenant_id(silent_mode = True, choice, inputs_dict)
get_tenant_id(silent_mode, choice_, doc) ==
    LET valid == tenant_id_valid(choice_, doc.tenant_id, "TENANT_ID_INFRADEV_JSON", "TENANT_ID_JSON")
    IN  IF valid.raised # "none" THEN valid ELSE Return(doc.tenant_id)

\* ([1-9]?[0-9]|1[0-9]{2}|2[0-4][0-9]|25[0-5]) matches all of t
octet_pattern(t) ==
    \/ Len(t) = 1 /\ At(t, 1) \in DigitSet
    \/ Len(t) = 2 /\ At(t, 1) \in DigitSet \ {"0"} /\ At(t, 2) \in DigitSet
    \/ Len(t) = 3 /\ At(t, 1) = "1" /\ At(t, 2) \in DigitSet /\ At(t, 3) \in DigitSet
    \/ Len(t) = 3 /\ At(t, 1) = "2" /\ At(t, 2) \in {"0", "1", "2", "3", "4"} /\ At(t, 3) \in DigitSet
    \/ Len(t) = 3 /\ SubSeq(t, 1, 2) = "25" /\ At(t, 3) \in {"0", "1", "2", "3", "4", "5"}

\* ([1-2]?[0-9]|3[0-2]) matches all of t
prefix_length_pattern(t) ==
    \/ Len(t) = 1 /\ At(t, 1) \in DigitSet
    \/ Len(t) = 2 /\ At(t, 1) \in {"1", "2"} /\ At(t, 2) \in DigitSet
    \/ Len(t) = 2 /\ At(t, 1) = "3" /\ At(t, 2) \in {"0", "1", "2"}

\* \b<octet>\b matches s[i .. i+n-1]
octet_at(s, i, n) ==
    /\ i + n - 1 <= Len(s)
    /\ octet_pattern(SubSeq(s, i, i + n - 1))
    /\ WordBoundary(s, i)
    /\ WordBoundary(s, i + n)

\* the positions j such that (\b<octet>\b\.) repeated k times matches s[i .. j-1]
RECURSIVE dotted_octets(_, _, _)
dotted_octets(s, i, k) ==
    IF k = 0 THEN {i}
    ELSE UNION {dotted_octets(s, i + n + 1, k - 1) :
                    n \in {l \in 1..3 : octet_at(s, i, l) /\ At(s, i + l) = "."}}

\* cidr_regex matches s from position i on
cidr_regex_at(s, i) ==
    \E j \in dotted_octets(s, i, 3), n \in 1..3, m \in 1..2 :
        /\ octet_at(s, j, n)
        /\ At(s, j + n) = "/"
        /\ j + n + m <= Len(s)
        /\ prefix_length_pattern(SubSeq(s, j + n + 1, j + n + m))
        /\ WordBoundary(s, j + n + 1)
        /\ WordBoundary(s, j + n + m + 1)

\* re.search(cidr_regex, s): the regex has no anchors, a match may start anywhere
cidr_regex_search(s) == \E i \in 1..(Len(s) + 1) : cidr_regex_at(s, i)

vnet_app_ip_address_valid(vnet_app_ip_address, error_message) ==
    IF cidr_regex_search(vnet_app_ip_address)
    THEN Return(TRUE)
    ELSE Raise(error_message)

\* get_vnet_app_ip_address(silent_mode = True, inputs_dict)
get_vnet_app_ip_address(silent_mode, doc) ==
    LET valid == vnet_app_ip_address_valid(doc.vnet_app_ip_address, "VNET_CIDR_JSON")
    IN  IF valid.raised # "none" THEN valid ELSE Return(doc.vnet_app_ip_address)

mandatory_tag_valid(mandatory_tag, error_message) ==
    IF strip(mandatory_tag) = "" THEN Raise(error_message) ELSE Return(TRUE)

\* a JSON value of the input document: its Python type ("bool", "int", "str",
\* "null", "dict") and its value: the JSON literal of a scalar, the sequence of
\* items of a dict (empty for null)
JsonValue(type, v) == [type |-> type, v |-> v]

\* create_optional_tags_choice_valid that accepts the integers too
\* (isinstance(optional_tags_choice, int))
create_optional_tags_choice_valid_int(optional_tags_choice) ==
    IF optional_tags_choice.type \in {"bool", "int"}
    THEN Return(TRUE)
    ELSE Raise("CREATE_OPTIONAL_TAGS_CHOICE_JSON")

\* type(optional_tags_choice) == bool
create_optional_tags_choice_valid(optional_tags_choice) ==
    IF optional_tags_choice.type = "bool"
    THEN Return(TRUE)
    ELSE Raise("CREATE_OPTIONAL_TAGS_CHOICE_JSON")

\* get_create_optional_tags_choice(silent_mode = True, inputs_dict)
get_create_optional_tags_choice(silent_mode, doc) ==
    LET valid == create_optional_tags_choice_valid(doc.create_optional_tags)
    IN  IF valid.raised # "none" THEN valid ELSE Return(doc.create_optional_tags.v = "true")

-----------------------------------------------------------------------------
(* Name & Path Deriver *)

\* the directory that holds scripts/ (pathlib.Path(__file__).parent.parent)
ROOT_DIR == "/repo"

SUBSCRIPTION_DIR == ROOT_DIR \o "/infra/landingzones"

\* os.path.join of components none of which is absolute or ends with '/'
RECURSIVE path_join(_)
path_join(parts) ==
    IF Len(parts) = 1 THEN parts[1]
    ELSE parts[1] \o "/" \o path_join(Tail(parts))

\* the index after the run of digits that starts at s[i]
RECURSIVE digits_end(_, _)
digits_end(s, i) == IF At(s, i) \in DigitSet THEN digits_end(s, i + 1) ELSE i

\* re.findall("\\d+", s): the first element, None when the list is empty
first_digit_run(s) ==
    IF \E i \in 1..Len(s) : At(s, i) \in DigitSet
    THEN LET i == CHOOSE i \in 1..Len(s) :
                     /\ At(s, i) \in DigitSet
                     /\ \A j \in 1..(i - 1) : At(s, j) \notin DigitSet
         IN  SubSeq(s, i, digits_end(s, i) - 1)
    ELSE None

\* str.replace(old, new) from s[i] on, for a non-empty old
replace_from(s, old, new, i) ==
    LET rest[k \in 1..(Len(s) + Len(old))] ==
            IF k > Len(s) THEN ""
            ELSE IF k + Len(old) - 1 <= Len(s) /\ SubSeq(s, k, k + Len(old) - 1) = old
                 THEN new \o rest[k + Len(old)]
            ELSE At(s, k) \o rest[k + 1]
    IN  rest[i]

\* str.replace(old, new) on the characters lo..hi of s, for a one-character old
replace_char_range(s, old, new, lo, hi) ==
    LET part[a \in 1..(Len(s) + 1), b \in 0..Len(s)] ==
            IF a > b THEN ""
            ELSE IF a = b THEN (IF At(s, a) = old THEN new ELSE At(s, a))
            ELSE LET mid == (a + b) \div 2
                 IN  part[a, mid] \o part[mid + 1, b]
    IN  part[lo, hi]

\* str.replace(old, new): every non-overlapping occurrence, from the left
str_replace(s, old, new) ==
    IF Len(old) = 1 THEN replace_char_range(s, old, new, 1, Len(s))
    ELSE replace_from(s, old, new, 1)

\* get_subscription_name that keeps the letter case of a non-infradev name
get_subscription_name_no_lower(choice_, name) ==
    LET application_environment == ENVIRONMENT_MENU[choice_][2]
    IN  IF application_environment = "infradev"
        THEN LET application_number == first_digit_run(name)
             IN  IF application_number = None THEN Raise("IndexError")
                 ELSE LET final_application_name == lower(str_replace(name, application_number, ""))
                          final_application_number ==
                              IF Len(application_number) = 1 THEN "00" \o application_number
                              ELSE IF Len(application_number) = 2 THEN "0" \o application_number
                              ELSE application_number
                      IN  Return("itaudev-lzdev-" \o final_application_name \o "-"
                                 \o final_application_number)
        ELSE Return("itau-lz" \o application_environment \o "-" \o name \o "-001")

get_subscription_name(choice_, name) ==
    LET application_environment == ENVIRONMENT_MENU[choice_][2]
    IN  IF application_environment = "infradev"
        THEN LET application_number == first_digit_run(name)
             IN  IF application_number = None THEN Raise("IndexError")
                 ELSE LET final_application_name == lower(str_replace(name, application_number, ""))
                          final_application_number ==
                              IF Len(application_number) = 1 THEN "00" \o application_number
                              ELSE IF Len(application_number) = 2 THEN "0" \o application_number
                              ELSE application_number
                      IN  Return("itaudev-lzdev-" \o final_application_name \o "-"
                                 \o final_application_number)
        ELSE Return("itau-lz" \o application_environment \o "-" \o lower(name) \o "-001")

get_subscription_path(choice_, name) ==
    LET subscription_name == get_subscription_name(choice_, name)
    IN  IF subscription_name.raised # "none" THEN subscription_name
        ELSE Return(<<path_join(<<SUBSCRIPTION_DIR, ENVIRONMENT_MENU[choice_][1],
                                  ENVIRONMENT_MENU[choice_][2], subscription_name.value>>),
                      subscription_name.value>>)

-----------------------------------------------------------------------------
(* Tag Reconciler *)

\* json.encoder.py_encode_basestring_ascii on one ASCII character
json_escape_char(c) ==
    CASE c = "\"" -> "\\\""
      [] c = "\\" -> "\\\\"
      [] c = "\n" -> "\\n"
      [] c = "\r" -> "\\r"
      [] c = "\t" -> "\\t"
      [] OTHER -> c

json_escape_range(s, lo, hi) ==
    LET part[a \in 1..(Len(s) + 1), b \in 0..Len(s)] ==
            IF a > b THEN ""
            ELSE IF a = b THEN json_escape_char(At(s, a))
            ELSE LET mid == (a + b) \div 2
                 IN  part[a, mid] \o part[mid + 1, b]
    IN  part[lo, hi]

\* the JSON text of a Python str
json_string(s) == "\"" \o json_escape_range(s, 1, Len(s)) \o "\""

\* the items of a dict from the i-th on, one per line at indent 4, joined by ','
RECURSIVE json_items(_, _)
json_items(d, i) ==
    IF i > Len(d) THEN ""
    ELSE "\n    " \o json_string(d[i][1]) \o ": " \o json_string(d[i][2])
         \o (IF i < Len(d) THEN "," ELSE "") \o json_items(d, i + 1)

\* json.JSONEncoder(indent=4).encode(obj) for None and for a dict of str to str
json_encode(obj) ==
    IF obj.type = "null" THEN "null"
    ELSE IF Len(obj.v) = 0 THEN "{}"
    ELSE "{" \o json_items(obj.v, 1) \o "\n}"

\* CustomJSONEncoder.encode that rewrites the colons and keeps the commas
CustomJSONEncoder_encode_keep_commas(obj) ==
    str_replace(json_encode(obj), ":", " =")

\* CustomJSONEncoder.encode: json.dumps(obj, indent=4, cls=CustomJSONEncoder);
\* json_str is bound to the text of each of the three assignments in turn
CustomJSONEncoder_encode(obj) ==
    LET encoded == {json_encode(o) : o \in {obj}}
        no_colon == {str_replace(json_str, ":", " =") : json_str \in encoded}
        no_comma == {str_replace(json_str, ",", "") : json_str \in no_colon}
    IN  CHOOSE json_str \in no_comma : TRUE

\* get_mandatory_tags that compares the ApplicationName tag case-sensitively
get_mandatory_tags_case_sensitive(silent_mode, choice_, doc, name, acronym) ==
    LET tags == doc.mandatory_tags
        infrastructure_environment == doc.infrastructure_environment
    IN  IF dict_get(tags, "ApplicationName") = None THEN Raise("AttributeError")
        ELSE IF dict_get(tags, "ApplicationName") # name
             THEN Raise("MANDATORY_TAGS_APPLICATION_NAME_JSON")
        ELSE IF dict_get(tags, "Environment") # infrastructure_environment
             THEN Raise("MANDATORY_TAGS_ENVIRONMENT_JSON")
        ELSE IF Len(tags) = 0 THEN Return(None)
        ELSE IF mandatory_tag_valid(tags[1][2], "MANDATORY_TAGS_EMPTY_JSON").raised # "none"
             THEN Raise("MANDATORY_TAGS_EMPTY_JSON")
        ELSE Return(CustomJSONEncoder_encode(JsonValue("dict", tags)))

\* get_mandatory_tags(silent_mode = True, ...): the for loop returns in its
\* first iteration, so mandatory_tag_valid sees the first value of the dict only
get_mandatory_tags(silent_mode, choice_, doc, name, acronym) ==
    LET tags == doc.mandatory_tags
        infrastructure_environment == doc.infrastructure_environment
    IN  IF dict_get(tags, "ApplicationName") = None THEN Raise("AttributeError")
        ELSE IF lower(dict_get(tags, "ApplicationName")) # lower(name)
             THEN Raise("MANDATORY_TAGS_APPLICATION_NAME_JSON")
        ELSE IF dict_get(tags, "Environment") # infrastructure_environment
             THEN Raise("MANDATORY_TAGS_ENVIRONMENT_JSON")
        ELSE IF Len(tags) = 0 THEN Return(None)
        ELSE IF mandatory_tag_valid(tags[1][2], "MANDATORY_TAGS_EMPTY_JSON").raised # "none"
             THEN Raise("MANDATORY_TAGS_EMPTY_JSON")
        ELSE Return(CustomJSONEncoder_encode(JsonValue("dict", tags)))

\* get_optional_tags that applies the defaults of the interactive mode to the
\* map of the document
get_optional_tags_defaulting(silent_mode, doc) ==
    LET optional_tags_choice == get_create_optional_tags_choice(silent_mode, doc)
        given == doc.optional_tags.v
        defaulted == [i \in 1..Len(given) |->
                         IF given[i] = <<"CreatedWith", "">> THEN <<"CreatedWith", "DevOps">>
                         ELSE IF given[i] = <<"AccountType", "">> THEN <<"AccountType", "App">>
                         ELSE given[i]]
    IN  IF optional_tags_choice.raised # "none" THEN optional_tags_choice
        ELSE Return(CustomJSONEncoder_encode(
                 IF optional_tags_choice.value
                 THEN (IF doc.optional_tags.type = "dict"
                       THEN JsonValue("dict", defaulted) ELSE doc.optional_tags)
                 ELSE JsonValue("dict", <<>>)))

\* get_optional_tags(silent_mode = True, inputs_dict)
get_optional_tags(silent_mode, doc) ==
    LET optional_tags_choice == get_create_optional_tags_choice(silent_mode, doc)
    IN  IF optional_tags_choice.raised # "none" THEN optional_tags_choice
        ELSE Return(CustomJSONEncoder_encode(
                 IF optional_tags_choice.value THEN doc.optional_tags
                 ELSE JsonValue("dict", <<>>)))

-----------------------------------------------------------------------------
(* Template Renderer *)

\* templates/landingzones/resources/terragrunt.hcl.tmpl
RESOURCES_TEMPLATE == "tenant = \"$tenant_id\"\ncidr = \"${vnet_ip_address_space}\"\n"

\* templates/landingzones/subscription/terragrunt.hcl.tmpl
SUBSCRIPTION_TEMPLATE == "include {}\n"

\* templates/landingzones/variables.hcl.tmpl
VARIABLES_TEMPLATE ==
    "sigla = \"$application_acronym\"\nm = $tags_mandatory\no = $tags_optional\n"

\* [_a-z] and [_a-z0-9] of string.Template.idpattern, with re.IGNORECASE
IdStartSet == LowerSet \cup UpperSet \cup {"_"}

IdSet == IdStartSet \cup DigitSet

\* the index after the identifier characters that start at s[i]
RECURSIVE identifier_end(_, _)
identifier_end(s, i) == IF At(s, i) \in IdSet THEN identifier_end(s, i + 1) ELSE i

\* string.Template(t).safe_substitute(**mapping) from t[i] on: one pass over the
\* template; "$$" is an escaped '$', "$name" and "${name}" are replaced when
\* name is a key of the mapping and left as they are otherwise; rest[k] is the
\* result from t[k] on
safe_substitute_from(t, mapping, i) ==
    LET rest[k \in 1..(Len(t) + 2)] ==
            IF k > Len(t) THEN ""
            ELSE IF \A j \in k..Len(t) : At(t, j) # "$" THEN SubSeq(t, k, Len(t))
            ELSE IF At(t, k) # "$"
                 THEN LET d == CHOOSE j \in k..Len(t) :
                                   At(t, j) = "$" /\ \A l \in k..(j - 1) : At(t, l) # "$"
                      IN  SubSeq(t, k, d - 1) \o rest[d]
            ELSE IF At(t, k + 1) = "$" THEN "$" \o rest[k + 2]
            ELSE IF At(t, k + 1) \in IdStartSet
                 THEN LET e == identifier_end(t, k + 1)
                          named == SubSeq(t, k + 1, e - 1)
                      IN  (IF named \in DOMAIN mapping THEN mapping[named]
                           ELSE SubSeq(t, k, e - 1))
                          \o rest[e]
            ELSE IF At(t, k + 1) = "{" /\ At(t, k + 2) \in IdStartSet
                    /\ At(t, identifier_end(t, k + 2)) = "}"
                 THEN LET e == identifier_end(t, k + 2)
                          braced == SubSeq(t, k + 2, e - 1)
                      IN  (IF braced \in DOMAIN mapping THEN mapping[braced]
                           ELSE SubSeq(t, k, e))
                          \o rest[e + 1]
            ELSE "$" \o rest[k + 1]
    IN  rest[i]

\* safe_substitute applied again to its own result
safe_substitute_twice(t, mapping) ==
    safe_substitute_from(safe_substitute_from(t, mapping, 1), mapping, 1)

safe_substitute(t, mapping) == safe_substitute_from(t, mapping, 1)

-----------------------------------------------------------------------------
(* Materializer: the file system *)

\* os.path.dirname(path): what precedes the last '/'
dirname(path) ==
    LET slashes == {j \in 1..Len(path) : At(path, j) = "/"}
    IN  IF slashes = {} THEN ""
        ELSE LET j == CHOOSE k \in slashes : \A l \in slashes : l <= k
             IN  IF j = 1 THEN "/" ELSE SubSeq(path, 1, j - 1)

\* path and the directories above it, below the root directory
ancestors(path) ==
    {path} \cup {SubSeq(path, 1, j - 1) : j \in {k \in 2..Len(path) : At(path, k) = "/"}}

\* the texts between the separators of a path, from the left
path_components(path) ==
    LET cuts == {j \in 0..(Len(path) + 1) : j = 0 \/ j = Len(path) + 1 \/ At(path, j) = "/"}
        ends == cuts \ {0}
        before(c) == CHOOSE j \in cuts : j < c /\ \A l \in cuts : l < c => l <= j
        nth(i) == CHOOSE c \in ends : Cardinality({l \in ends : l <= c}) = i
    IN  [i \in 1..Cardinality(ends) |-> SubSeq(path, before(nth(i)) + 1, nth(i) - 1)]

\* the components walked so far, after one more component c of a path
path_step(walked, c) ==
    IF c = "" \/ c = "." THEN walked
    ELSE IF c = ".." THEN SubSeq(walked, 1, Len(walked) - 1)
    ELSE Append(walked, c)

\* the files that an absolute path and its prefixes name, from the shortest
\* prefix to the path itself, as the system calls of os.makedirs and open
\* resolve them and as os.path.normpath writes them: empty and "." components
\* are skipped and ".." steps back to the parent
resolved_prefixes(path) ==
    LET join(parts) ==
            LET joined[i \in 0..Len(parts)] ==
                    IF i = 0 THEN "" ELSE joined[i - 1] \o "/" \o parts[i]
            IN  IF Len(parts) = 0 THEN "/" ELSE joined[Len(parts)]
        walk(parts) ==
            LET walked[i \in 0..Len(parts)] ==
                    IF i = 0 THEN <<>> ELSE path_step(walked[i - 1], parts[i])
            IN  [i \in 1..Len(parts) |-> join(walked[i])]
    IN  CHOOSE r \in {walk(parts) : parts \in {path_components(path)}} : TRUE

\* the file that an absolute path names
resolve(path) ==
    CHOOSE file \in {r[Len(r)] : r \in {resolved_prefixes(path)}} : TRUE

\* os.path.relpath(path) with the repository root as working directory
relpath(path) ==
    CHOOSE rel \in {IF SubSeq(p, 1, Len(ROOT_DIR) + 1) = ROOT_DIR \o "/"
                    THEN SubSeq(p, Len(ROOT_DIR) + 2, Len(p))
                    ELSE p : p \in {resolve(path)}} : TRUE

\* os.path.exists(path): every directory on the way exists and the path
\* resolves to a directory or to a file
exists(path) ==
    \E r \in {resolved_prefixes(path)} :
        /\ \A i \in 1..(Len(r) - 1) : r[i] = "/" \/ r[i] \in dirs
        /\ r[Len(r)] \in dirs \/ r[Len(r)] \in DOMAIN files

\* the three paths of subscription_files_path_list
subscription_files_path_list(root) ==
    <<path_join(<<root, "variables.hcl">>),
      path_join(<<root, "resources", "terragrunt.hcl">>),
      path_join(<<root, "subscription", "terragrunt.hcl">>)>>

\* what the loop body writes to file: the branch is chosen by looking for
\* "resources" and "subscription" in the whole path
file_content(file, name, resources, subscription, variables) ==
    IF Contains(file, "resources")
    THEN "# file: '" \o relpath(file) \o "'\n# 'Resources' configuration file for application '"
         \o name \o "'\n\n" \o resources
    ELSE IF Contains(file, "subscription")
    THEN "# file: '" \o relpath(file) \o "'\n# 'Subscription' configuration file for application '"
         \o name \o "'\n\n" \o subscription
    ELSE "# file: '" \o relpath(file) \o "'\n# 'Variables' file for application '"
         \o name \o "'\n\n" \o variables

-----------------------------------------------------------------------------
(* Input documents (the JSON file of --silent mode) *)

Doc(infra, app, name, acronym, tenant, vnet, opt_choice, m_tags, o_tags) ==
    [infrastructure_environment |-> infra,
     application_environment    |-> app,
     application_name           |-> name,
     application_acronym        |-> acronym,
     tenant_id                  |-> tenant,
     vnet_app_ip_address        |-> vnet,
     create_optional_tags       |-> opt_choice,
     mandatory_tags             |-> m_tags,
     optional_tags              |-> o_tags]

\* a mandatory_tags map with its seven keys in the documented order
MTags(name_tag, cost_center, data_classification, env_tag, owner_name, sigla, squad) ==
    <<<<"ApplicationName", name_tag>>, <<"CostCenter", cost_center>>,
      <<"DataClassification", data_classification>>, <<"Environment", env_tag>>,
      <<"OwnerName", owner_name>>, <<"Sigla", sigla>>, <<"Squad", squad>>>>

OTags ==
    JsonValue("dict", <<<<"ApproverName", "bia">>, <<"CreatedWith", "">>,
                        <<"AccountType", "App">>>>)

\* a valid document for code 4 (prod, prod)
ProdDoc(name, name_tag) ==
    Doc("prod", "prod", name, "ab1", "123456789012", "10.0.0.0/16",
        JsonValue("bool", "false"),
        MTags(name_tag, "123", "Interna", "prod", "ana", "AB1", "sq"),
        JsonValue("null", <<>>))

\* a valid document for code 1 (dev, infradev)
DevDoc ==
    Doc("dev", "infradev", "example7", "ab1", "new123456789", "10.0.0.0/16",
        JsonValue("bool", "true"),
        MTags("Example7", "123", "Interna", "dev", "ana", "AB1", "sq"),
        OTags)

BaseDoc == ProdDoc("checkout", "Checkout")

\* documents of the full pipeline: valid ones, and one invalid field at a time
Docs ==
    {BaseDoc, DevDoc}
    \cup {ProdDoc(n, n) : n \in {"resources", "my-subscription"}}
    \cup {[BaseDoc EXCEPT !.infrastructure_environment = "PROD",
                          !.mandatory_tags = MTags("checkout", "123", "Interna", e, "ana", "AB1", "sq")]
            : e \in {"PROD", "prod"}}
    \cup {[BaseDoc EXCEPT !.infrastructure_environment = e[1], !.application_environment = e[2]]
            : e \in {<<"qa", "prod">>, <<"prod", "qa">>, <<"dev", "prod">>}}
    \cup {[DevDoc EXCEPT !.application_name = "checkout"],
          [BaseDoc EXCEPT !.application_acronym = "abc"],
          [BaseDoc EXCEPT !.tenant_id = "new123456789"],
          [BaseDoc EXCEPT !.vnet_app_ip_address = "10.0.0/16"],
          [BaseDoc EXCEPT !.create_optional_tags = JsonValue("str", "\"true\"")]}
    \cup {[BaseDoc EXCEPT !.mandatory_tags = t]
            : t \in {MTags("payments", "123", "Interna", "prod", "ana", "AB1", "sq"),
                     MTags("checkout", "123", "Interna", "dev", "ana", "AB1", "sq"),
                     MTags("checkout", " ", "Interna", "prod", "", "AB1", "sq")}}

\* what the file system may hold before the first run: nothing, the landing
\* zones directory, or the (empty) directory of the 'checkout' subscription
InitialDirs ==
    {{}, ancestors(SUBSCRIPTION_DIR),
     ancestors(get_subscription_path("4", "Checkout").value[1])}

-----------------------------------------------------------------------------
(* The run of the script in silent mode, step by step *)

Init ==
    /\ inputs_dict = None
    /\ pc = "idle"
    /\ choice = None
    /\ application_name = None
    /\ application_acronym = None
    /\ subscription_root_dir = None
    /\ tenant_id = None
    /\ resources_content = None
    /\ subscription_content = None
    /\ mandatory_tags = None
    /\ variables_content = None
    /\ raised = "none"
    /\ dirs \in InitialDirs
    /\ files = [f \in {} |-> ""]
    /\ file_i = 0
    /\ runs = 0
    /\ user_input = None
    /\ tag_values = <<>>
    /\ optional_tags = None

\* the exception e propagates out of main: the run is over
Abort(e) ==
    /\ pc' = "aborted"
    /\ raised' = e

\* main, args.silent: load the document and resolve the environment
main_silent(docs) ==
    /\ pc \in {"idle", "done", "aborted"}
    /\ runs < MaxRuns
    /\ \E doc \in docs :
         LET r == get_environment_data(TRUE, doc)
         IN  /\ inputs_dict' = doc
             /\ IF r.raised # "none"
                THEN Abort(r.raised) /\ choice' = None
                ELSE pc' = "get_application_name" /\ raised' = "none" /\ choice' = r.value[1]
    /\ runs' = runs + 1
    /\ optional_tags' = None
    /\ UNCHANGED <<user_input, tag_values>>
    /\ application_name' = None
    /\ application_acronym' = None
    /\ subscription_root_dir' = None
    /\ tenant_id' = None
    /\ resources_content' = None
    /\ subscription_content' = None
    /\ mandatory_tags' = None
    /\ variables_content' = None
    /\ file_i' = 0
    /\ UNCHANGED <<dirs, files>>

\* create_subscription_files: application_name = get_application_name(...)
GetApplicationName ==
    /\ pc = "get_application_name"
    /\ LET r == get_application_name(TRUE, choice, inputs_dict)
       IN  IF r.raised # "none"
           THEN Abort(r.raised) /\ UNCHANGED application_name
           ELSE pc' = "get_application_acronym" /\ application_name' = r.value
                /\ UNCHANGED raised
    /\ UNCHANGED <<inputs_dict, choice, application_acronym, subscription_root_dir, tenant_id,
                   resources_content, subscription_content, mandatory_tags, variables_content,
                   dirs, files, file_i, runs,
                   user_input, tag_values>>
    /\ UNCHANGED optional_tags

\* create_subscription_files: application_acronym = get_application_acronym(...)
GetApplicationAcronym ==
    /\ pc = "get_application_acronym"
    /\ LET r == get_application_acronym(TRUE, inputs_dict)
       IN  IF r.raised # "none"
           THEN Abort(r.raised) /\ UNCHANGED application_acronym
           ELSE pc' = "get_subscription_path" /\ application_acronym' = r.value
                /\ UNCHANGED raised
    /\ UNCHANGED <<inputs_dict, choice, application_name, subscription_root_dir, tenant_id,
                   resources_content, subscription_content, mandatory_tags, variables_content,
                   dirs, files, file_i, runs,
                   user_input, tag_values>>
    /\ UNCHANGED optional_tags

\* GetSubscriptionPath that creates the subscription directory as soon as the
\* path is known
GetSubscriptionPath_makedirs ==
    /\ pc = "get_subscription_path"
    /\ LET r == get_subscription_path(choice, application_name)
       IN  IF r.raised # "none"
           THEN Abort(r.raised) /\ UNCHANGED <<subscription_root_dir, dirs>>
           ELSE pc' = "get_tenant_id" /\ subscription_root_dir' = r.value[1]
                /\ dirs' = dirs \cup ancestors(r.value[1])
                /\ UNCHANGED raised
    /\ UNCHANGED <<inputs_dict, choice, application_name, application_acronym, tenant_id,
                   resources_content, subscription_content, mandatory_tags, variables_content,
                   files, file_i, runs,
                   user_input, tag_values>>
    /\ UNCHANGED optional_tags

\* create_subscription_files: subscription_root_dir = get_subscription_path(...)[0]
GetSubscriptionPath ==
    /\ pc = "get_subscription_path"
    /\ LET r == get_subscription_path(choice, application_name)
       IN  IF r.raised # "none"
           THEN Abort(r.raised) /\ UNCHANGED subscription_root_dir
           ELSE pc' = "get_tenant_id" /\ subscription_root_dir' = r.value[1]
                /\ UNCHANGED raised
    /\ UNCHANGED <<inputs_dict, choice, application_name, application_acronym, tenant_id,
                   resources_content, subscription_content, mandatory_tags, variables_content,
                   dirs, files, file_i, runs,
                   user_input, tag_values>>
    /\ UNCHANGED optional_tags

\* GetTenantId that records the error of an invalid tenant id and goes on to
\* the next field
GetTenantId_collect ==
    /\ pc = "get_tenant_id"
    /\ LET r == get_tenant_id(TRUE, choice, inputs_dict)
       IN  /\ pc' = "get_vnet_app_ip_address"
           /\ tenant_id' = inputs_dict.tenant_id
           /\ raised' = r.raised
    /\ UNCHANGED <<inputs_dict, choice, application_name, application_acronym,
                   subscription_root_dir, resources_content, subscription_content,
                   mandatory_tags, variables_content, dirs, files, file_i, runs,
                   user_input, tag_values>>
    /\ UNCHANGED optional_tags

\* generate_resources_content: tenant_id = get_tenant_id(...)
GetTenantId ==
    /\ pc = "get_tenant_id"
    /\ LET r == get_tenant_id(TRUE, choice, inputs_dict)
       IN  IF r.raised # "none"
           THEN Abort(r.raised) /\ UNCHANGED tenant_id
           ELSE pc' = "get_vnet_app_ip_address" /\ tenant_id' = r.value
                /\ UNCHANGED raised
    /\ UNCHANGED <<inputs_dict, choice, application_name, application_acronym,
                   subscription_root_dir, resources_content, subscription_content,
                   mandatory_tags, variables_content, dirs, files, file_i, runs,
                   user_input, tag_values>>
    /\ UNCHANGED optional_tags

\* generate_resources_content: get_vnet_app_ip_address(...), then the template
\* is read and substituted
GetVnetAppIpAddress ==
    /\ pc = "get_vnet_app_ip_address"
    /\ LET r == get_vnet_app_ip_address(TRUE, inputs_dict)
       IN  IF r.raised # "none"
           THEN Abort(r.raised) /\ UNCHANGED resources_content
           ELSE /\ pc' = "generate_subscription_content"
                /\ resources_content' =
                       safe_substitute(RESOURCES_TEMPLATE,
                                       [tenant_id |-> tenant_id,
                                        vnet_ip_address_space |-> r.value])
                /\ UNCHANGED raised
    /\ UNCHANGED <<inputs_dict, choice, application_name, application_acronym,
                   subscription_root_dir, tenant_id, subscription_content,
                   mandatory_tags, variables_content, dirs, files, file_i, runs,
                   user_input, tag_values>>
    /\ UNCHANGED optional_tags

\* create_subscription_files: subscription_content = generate_subscription_content()
GenerateSubscriptionContent ==
    /\ pc = "generate_subscription_content"
    /\ pc' = "get_mandatory_tags"
    /\ subscription_content' = SUBSCRIPTION_TEMPLATE
    /\ UNCHANGED <<inputs_dict, choice, application_name, application_acronym,
                   subscription_root_dir, tenant_id, resources_content, mandatory_tags,
                   variables_content, raised, dirs, files, file_i, runs,
                   user_input, tag_values>>
    /\ UNCHANGED optional_tags

\* generate_variables_content: mandatory_tags = get_mandatory_tags(...)
GetMandatoryTags ==
    /\ pc = "get_mandatory_tags"
    /\ LET r == get_mandatory_tags(TRUE, choice, inputs_dict, application_name,
                                   application_acronym)
       IN  IF r.raised # "none"
           THEN Abort(r.raised) /\ UNCHANGED mandatory_tags
           ELSE pc' = "get_optional_tags" /\ mandatory_tags' = r.value
                /\ UNCHANGED raised
    /\ UNCHANGED <<inputs_dict, choice, application_name, application_acronym,
                   subscription_root_dir, tenant_id, resources_content, subscription_content,
                   variables_content, dirs, files, file_i, runs,
                   user_input, tag_values>>
    /\ UNCHANGED optional_tags

\* generate_variables_content: optional_tags = get_optional_tags(...), then the
\* template is read and substituted; the for loop over the files is entered
GetOptionalTags ==
    /\ pc = "get_optional_tags"
    /\ LET r == get_optional_tags(TRUE, inputs_dict)
       IN  IF r.raised # "none"
           THEN Abort(r.raised) /\ UNCHANGED <<variables_content, file_i, optional_tags>>
           ELSE /\ pc' = "create_files"
                /\ file_i' = 1
                /\ optional_tags' = r.value
                /\ variables_content' =
                       safe_substitute(VARIABLES_TEMPLATE,
                                       [application_acronym |-> application_acronym,
                                        tags_mandatory |-> mandatory_tags,
                                        tags_optional |-> r.value])
                /\ UNCHANGED raised
    /\ UNCHANGED <<inputs_dict, choice, application_name, application_acronym,
                   subscription_root_dir, tenant_id, resources_content, subscription_content,
                   mandatory_tags, dirs, files, runs,
                   user_input, tag_values>>

\* CreateFile with os.makedirs(dirname, exist_ok=True) and open(file, "w"): an
\* existing directory is accepted and an existing file is overwritten
CreateFile_overwrite ==
    /\ pc = "create_files"
    /\ LET file == subscription_files_path_list(subscription_root_dir)[file_i]
           d == dirname(file)
       IN  /\ dirs' = dirs \cup ancestors(d)
           /\ files' = (file :> file_content(file, application_name, resources_content,
                                             subscription_content, variables_content))
                       @@ files
           /\ IF file_i < 3
              THEN file_i' = file_i + 1 /\ UNCHANGED pc
              ELSE pc' = "done" /\ UNCHANGED file_i
           /\ UNCHANGED raised
    /\ UNCHANGED <<inputs_dict, choice, application_name, application_acronym,
                   subscription_root_dir, tenant_id, resources_content, subscription_content,
                   mandatory_tags, variables_content, runs,
                   user_input, tag_values>>
    /\ UNCHANGED optional_tags

\* one iteration of the for loop: os.makedirs(dirname, exist_ok=False), then
\* open(file, "x") and the write of the header and the body; makedirs creates
\* the missing directories above dirname, from the top, before dirname itself
CreateFile ==
    /\ pc = "create_files"
    /\ \E file \in {subscription_files_path_list(subscription_root_dir)[file_i]} :
       \E d \in {dirname(file)} :
       \E r \in {resolved_prefixes(d)} :
       \E above \in {{r[i] : i \in 1..(Len(r) - 1)} \ {"/"}} :
       \E target \in {resolve(file)} :
           IF exists(d)
           THEN Abort("FileExistsError") /\ UNCHANGED <<dirs, files, file_i>>
           ELSE IF \E a \in above : a \in DOMAIN files
           THEN /\ Abort("NotADirectoryError")
                /\ dirs' = dirs \cup ({r[i] : i \in {j \in 1..(Len(r) - 1) :
                                          \A k \in 1..j : r[k] \notin DOMAIN files}} \ {"/"})
                /\ UNCHANGED <<files, file_i>>
           ELSE IF r[Len(r)] \in dirs \cup above \/ r[Len(r)] \in DOMAIN files
           THEN Abort("FileExistsError") /\ dirs' = dirs \cup above
                /\ UNCHANGED <<files, file_i>>
           ELSE IF target \in dirs \cup above \/ target \in DOMAIN files
           THEN Abort("FileExistsError") /\ dirs' = dirs \cup above \cup {r[Len(r)]}
                /\ UNCHANGED <<files, file_i>>
           ELSE /\ dirs' = dirs \cup above \cup {r[Len(r)]}
                /\ files' = (target :>
                                file_content(file, application_name, resources_content,
                                             subscription_content, variables_content))
                            @@ files
                /\ IF file_i < 3
                   THEN file_i' = file_i + 1 /\ UNCHANGED pc
                   ELSE pc' = "done" /\ UNCHANGED file_i
                /\ UNCHANGED raised
    /\ UNCHANGED <<inputs_dict, choice, application_name, application_acronym,
                   subscription_root_dir, tenant_id, resources_content, subscription_content,
                   mandatory_tags, variables_content, runs,
                   user_input, tag_values>>
    /\ UNCHANGED optional_tags

\* the steps of create_subscription_files up to the rendering of the mandatory tags
ValidationSteps ==
    \/ GetApplicationName
    \/ GetApplicationAcronym
    \/ GetSubscriptionPath
    \/ GetTenantId
    \/ GetVnetAppIpAddress
    \/ GenerateSubscriptionContent
    \/ GetMandatoryTags

Next ==
    \/ main_silent(Docs)
    \/ ValidationSteps
    \/ GetOptionalTags
    \/ CreateFile

Spec == Init /\ [][Next]_vars

-----------------------------------------------------------------------------
(* The run of the script in interactive mode: one step per call of input() *)

\* the lines the operator may type at each prompt
MenuInputs == {"1", "4", "5", ""}

ApplicationNameInputs == {"example7", "checkout", ""}

ApplicationAcronymInputs == {"ab1", "abc"}

TenantIdInputs == {"new123456789", "123456789012", "x"}

VnetInputs == {"10.0.0.0/16", "10.0.0/16"}

TagInputs == {"abc", "", " "}

ChoiceInputs == {"1", "2", "3", " 2", "02", "x", ""}

OptionalTagInputs == {"", " "}

\* the index of the first character of s from i on that is not '0', at most hi
RECURSIVE skip_zeros(_, _, _)
skip_zeros(s, i, hi) == IF i < hi /\ At(s, i) = "0" THEN skip_zeros(s, i + 1, hi) ELSE i

\* int(s) of a line: surrounding whitespace and a sign are allowed; the result
\* is the numeral without sign '+' and leading zeros, or the ValueError
int(s) ==
    LET t == strip(s)
        signed == At(t, 1) \in {"+", "-"}
        first == IF signed THEN 2 ELSE 1
    IN  IF first > Len(t) \/ \E i \in first..Len(t) : At(t, i) \notin DigitSet
        THEN Raise("ValueError")
        ELSE LET digits == SubSeq(t, skip_zeros(t, first, Len(t)), Len(t))
             IN  Return(IF At(t, 1) = "-" /\ digits # "0" THEN "-" \o digits ELSE digits)

\* main, not args.silent: json_file_as_dict = {}; the environment menu is shown
main_interactive ==
    /\ pc = "idle"
    /\ runs = 0
    /\ inputs_dict' = <<>>
    /\ pc' = "get_env_selection_menu_choice"
    /\ runs' = runs + 1
    /\ UNCHANGED <<choice, application_name, application_acronym, subscription_root_dir,
                   tenant_id, resources_content, subscription_content, mandatory_tags,
                   variables_content, raised, dirs, files, file_i, user_input, tag_values>>
    /\ UNCHANGED optional_tags

\* get_env_selection_menu_choice: one iteration of the while loop, then
\* get_environment_data validates the pair of the chosen entry
GetEnvSelectionMenuChoice ==
    /\ pc = "get_env_selection_menu_choice"
    /\ \E l \in MenuInputs :
         /\ user_input' = l
         /\ IF l \notin DOMAIN ENVIRONMENT_MENU
            THEN UNCHANGED <<pc, choice, raised>>
            ELSE LET r == environment_data_valid(ENVIRONMENT_MENU[l])
                 IN  IF r.raised # "none"
                     THEN Abort(r.raised) /\ UNCHANGED choice
                     ELSE pc' = "input_application_name" /\ choice' = l /\ UNCHANGED raised
    /\ UNCHANGED <<inputs_dict, application_name, application_acronym, subscription_root_dir,
                   tenant_id, resources_content, subscription_content, mandatory_tags,
                   variables_content, dirs, files, file_i, runs, tag_values>>
    /\ UNCHANGED optional_tags

\* get_application_name, interactive: one iteration of the while loop
InputApplicationName ==
    /\ pc = "input_application_name"
    /\ \E l \in ApplicationNameInputs :
         LET name == title(l)
             r == application_name_valid(choice, name, "APPLICATION_NAME_INFRADEV")
         IN  /\ user_input' = l
             /\ IF r.raised # "none"
                THEN UNCHANGED <<pc, application_name>>
                ELSE pc' = "input_application_acronym" /\ application_name' = name
    /\ UNCHANGED <<inputs_dict, choice, application_acronym, subscription_root_dir,
                   tenant_id, resources_content, subscription_content, mandatory_tags,
                   variables_content, raised, dirs, files, file_i, runs, tag_values>>
    /\ UNCHANGED optional_tags

\* get_application_acronym, interactive: one iteration of the while loop; an
\* accepted acronym is followed by get_subscription_path
InputApplicationAcronym ==
    /\ pc = "input_application_acronym"
    /\ \E l \in ApplicationAcronymInputs :
         LET acronym == upper(l)
             r == application_acronym_valid(acronym, "APPLICATION_ACRONYM")
             path == get_subscription_path(choice, application_name)
         IN  /\ user_input' = l
             /\ IF r.raised # "none"
                THEN UNCHANGED <<pc, application_acronym, subscription_root_dir, raised>>
                ELSE /\ application_acronym' = acronym
                     /\ IF path.raised # "none"
                        THEN Abort(path.raised) /\ UNCHANGED subscription_root_dir
                        ELSE /\ pc' = "input_tenant_id"
                             /\ subscription_root_dir' = path.value[1]
                             /\ UNCHANGED raised
    /\ UNCHANGED <<inputs_dict, choice, application_name, tenant_id, resources_content,
                   subscription_content, mandatory_tags, variables_content, dirs, files,
                   file_i, runs, tag_values>>
    /\ UNCHANGED optional_tags

\* InputTenantId without the except clause: the error of a rejected tenant id
\* propagates out of main
InputTenantId_propagate ==
    /\ pc = "input_tenant_id"
    /\ \E l \in TenantIdInputs :
         LET r == tenant_id_valid(choice, l, "TENANT_ID_INFRADEV", "TENANT_ID")
         IN  /\ user_input' = l
             /\ IF r.raised # "none"
                THEN Abort(r.raised) /\ UNCHANGED tenant_id
                ELSE pc' = "input_vnet_ip_address_space" /\ tenant_id' = l
                     /\ UNCHANGED raised
    /\ UNCHANGED <<inputs_dict, choice, application_name, application_acronym,
                   subscription_root_dir, resources_content, subscription_content,
                   mandatory_tags, variables_content, dirs, files, file_i, runs,
                   tag_values>>
    /\ UNCHANGED optional_tags

\* get_tenant_id, interactive: one iteration of the while loop
InputTenantId ==
    /\ pc = "input_tenant_id"
    /\ \E l \in TenantIdInputs :
         LET r == tenant_id_valid(choice, l, "TENANT_ID_INFRADEV", "TENANT_ID")
         IN  /\ user_input' = l
             /\ IF r.raised # "none"
                THEN UNCHANGED <<pc, tenant_id>>
                ELSE pc' = "input_vnet_ip_address_space" /\ tenant_id' = l
    /\ UNCHANGED <<inputs_dict, choice, application_name, application_acronym,
                   subscription_root_dir, resources_content, subscription_content,
                   mandatory_tags, variables_content, raised, dirs, files, file_i, runs,
                   tag_values>>
    /\ UNCHANGED optional_tags

\* get_vnet_app_ip_address, interactive: one iteration of the while loop; an
\* accepted range is followed by the rendering of the resources and the
\* subscription bodies
InputVnetIpAddressSpace ==
    /\ pc = "input_vnet_ip_address_space"
    /\ \E l \in VnetInputs :
         LET r == vnet_app_ip_address_valid(l, "VNET_CIDR")
         IN  /\ user_input' = l
             /\ IF r.raised # "none"
                THEN UNCHANGED <<pc, resources_content, subscription_content>>
                ELSE /\ pc' = "input_cost_center"
                     /\ resources_content' =
                            safe_substitute(RESOURCES_TEMPLATE,
                                            [tenant_id |-> tenant_id,
                                             vnet_ip_address_space |-> l])
                     /\ subscription_content' = SUBSCRIPTION_TEMPLATE
    /\ UNCHANGED <<inputs_dict, choice, application_name, application_acronym,
                   subscription_root_dir, tenant_id, mandatory_tags, variables_content,
                   raised, dirs, files, file_i, runs, tag_values>>
    /\ UNCHANGED optional_tags

\* get_mandatory_tags, interactive: one iteration of the CostCenter loop
InputCostCenter ==
    /\ pc = "input_cost_center"
    /\ \E l \in TagInputs :
         LET r == mandatory_tag_valid(l, "MANDATORY_TAGS_EMPTY")
         IN  /\ user_input' = l
             /\ IF r.raised # "none"
                THEN UNCHANGED <<pc, tag_values>>
                ELSE pc' = "input_data_classification" /\ tag_values' = <<l>>
    /\ UNCHANGED <<inputs_dict, choice, application_name, application_acronym,
                   subscription_root_dir, tenant_id, resources_content, subscription_content,
                   mandatory_tags, variables_content, raised, dirs, files, file_i, runs>>
    /\ UNCHANGED optional_tags

\* get_mandatory_tags, interactive: the DataClassification loop; the except
\* clause sets the default value and leaves the loop
InputDataClassification ==
    /\ pc = "input_data_classification"
    /\ \E l \in TagInputs :
         LET r == mandatory_tag_valid(l, "MANDATORY_TAGS_EMPTY")
             data_classification == IF r.raised # "none" THEN "Interna" ELSE l
         IN  /\ user_input' = l
             /\ pc' = "input_owner_name"
             /\ tag_values' = Append(tag_values, data_classification)
    /\ UNCHANGED <<inputs_dict, choice, application_name, application_acronym,
                   subscription_root_dir, tenant_id, resources_content, subscription_content,
                   mandatory_tags, variables_content, raised, dirs, files, file_i, runs>>
    /\ UNCHANGED optional_tags

\* get_mandatory_tags, interactive: one iteration of the OwnerName loop
InputOwnerName ==
    /\ pc = "input_owner_name"
    /\ \E l \in TagInputs :
         LET r == mandatory_tag_valid(l, "MANDATORY_TAGS_EMPTY")
         IN  /\ user_input' = l
             /\ IF r.raised # "none"
                THEN UNCHANGED <<pc, tag_values>>
                ELSE pc' = "input_squad" /\ tag_values' = Append(tag_values, l)
    /\ UNCHANGED <<inputs_dict, choice, application_name, application_acronym,
                   subscription_root_dir, tenant_id, resources_content, subscription_content,
                   mandatory_tags, variables_content, raised, dirs, files, file_i, runs>>
    /\ UNCHANGED optional_tags

\* InputSquad whose loop has no break: the Squad prompt is issued again
\* whatever the line read
InputSquad_no_break ==
    /\ pc = "input_squad"
    /\ \E l \in TagInputs : user_input' = l
    /\ UNCHANGED <<inputs_dict, pc, choice, application_name, application_acronym,
                   subscription_root_dir, tenant_id, resources_content, subscription_content,
                   mandatory_tags, variables_content, raised, dirs, files, file_i, runs,
                   tag_values>>
    /\ UNCHANGED optional_tags

\* get_mandatory_tags, interactive: one iteration of the Squad loop; an accepted
\* value is followed by the construction and the serialization of the map
InputSquad ==
    /\ pc = "input_squad"
    /\ \E l \in TagInputs :
         LET r == mandatory_tag_valid(l, "MANDATORY_TAGS_EMPTY")
         IN  /\ user_input' = l
             /\ IF r.raised # "none"
                THEN UNCHANGED <<pc, tag_values, mandatory_tags>>
                ELSE /\ pc' = "input_create_optional_tags"
                     /\ tag_values' = Append(tag_values, l)
                     /\ mandatory_tags' =
                            CustomJSONEncoder_encode(JsonValue("dict",
                                MTags(application_name, tag_values[1], tag_values[2],
                                      ENVIRONMENT_MENU[choice][1], tag_values[3],
                                      application_acronym, l)))
    /\ UNCHANGED <<inputs_dict, choice, application_name, application_acronym,
                   subscription_root_dir, tenant_id, resources_content, subscription_content,
                   variables_content, raised, dirs, files, file_i, runs>>
    /\ UNCHANGED optional_tags

\* generate_variables_content: the template substituted with the acronym and
\* the two serialized tag maps
variables_template_str(optional_tags_) ==
    safe_substitute(VARIABLES_TEMPLATE,
                    [application_acronym |-> application_acronym,
                     tags_mandatory |-> mandatory_tags,
                     tags_optional |-> optional_tags_])

\* get_create_optional_tags_choice, interactive: one iteration of the while
\* loop; the answer 2 is followed by the rendering of the variables body
InputCreateOptionalTagsChoice ==
    /\ pc = "input_create_optional_tags"
    /\ \E l \in ChoiceInputs :
         LET r == int(l)
         IN  /\ user_input' = l
             /\ IF r.raised = "none" /\ r.value = "1"
                THEN pc' = "input_optional_tags"
                     /\ UNCHANGED <<variables_content, file_i, optional_tags>>
                ELSE IF r.raised = "none" /\ r.value = "2"
                THEN /\ pc' = "create_files"
                     /\ file_i' = 1
                     /\ optional_tags' = CustomJSONEncoder_encode(JsonValue("dict", <<>>))
                     /\ variables_content' = variables_template_str(optional_tags')
                ELSE UNCHANGED <<pc, variables_content, file_i, optional_tags>>
    /\ UNCHANGED <<inputs_dict, choice, application_name, application_acronym,
                   subscription_root_dir, tenant_id, resources_content, subscription_content,
                   mandatory_tags, raised, dirs, files, runs, tag_values>>

\* optional_tags_interactive without the two defaults: every line is kept as typed
optional_tags_interactive_verbatim(lines) ==
    <<<<"ApproverName", lines[1]>>,
      <<"CreatedWith", lines[2]>>,
      <<"RequesterName", lines[3]>>,
      <<"NotificationEmail", lines[4]>>,
      <<"ProductOwnerEmail", lines[5]>>,
      <<"AccountType", lines[6]>>>>

\* the optional_tags map of the interactive mode, built from the six lines read
optional_tags_interactive(lines) ==
    <<<<"ApproverName", lines[1]>>,
      <<"CreatedWith", IF lines[2] = "" THEN "DevOps" ELSE lines[2]>>,
      <<"RequesterName", lines[3]>>,
      <<"NotificationEmail", lines[4]>>,
      <<"ProductOwnerEmail", lines[5]>>,
      <<"AccountType", IF lines[6] = "" THEN "App" ELSE lines[6]>>>>

\* get_optional_tags, interactive, after the answer 1: one call of input() of
\* the dict display; the six lines are read without validation and kept after
\* the four values of get_mandatory_tags, and the sixth one is followed by the
\* defaults, the serialization and the rendering of the variables body
InputOptionalTags ==
    /\ pc = "input_optional_tags"
    /\ \E l \in OptionalTagInputs :
         /\ user_input' = l
         /\ tag_values' = Append(tag_values, l)
         /\ IF Len(tag_values) < 9
            THEN UNCHANGED <<pc, file_i, optional_tags, variables_content>>
            ELSE /\ pc' = "create_files"
                 /\ file_i' = 1
                 /\ optional_tags' =
                        CustomJSONEncoder_encode(JsonValue("dict",
                            optional_tags_interactive(SubSeq(tag_values', 5, 10))))
                 /\ variables_content' = variables_template_str(optional_tags')
    /\ UNCHANGED <<inputs_dict, choice, application_name, application_acronym,
                   subscription_root_dir, tenant_id, resources_content, subscription_content,
                   mandatory_tags, raised, dirs, files, runs>>

NextInteractive ==
    \/ main_interactive
    \/ GetEnvSelectionMenuChoice
    \/ InputApplicationName
    \/ InputApplicationAcronym
    \/ InputTenantId
    \/ InputVnetIpAddressSpace
    \/ InputCostCenter
    \/ InputDataClassification
    \/ InputOwnerName
    \/ InputSquad
    \/ InputCreateOptionalTagsChoice
    \/ InputOptionalTags
    \/ CreateFile

SpecInteractive == Init /\ [][NextInteractive]_vars

\* once the script has been started, the operator eventually types, at every
\* prompt, a line that the validator of the prompt accepts (the prompts of
\* DataClassification and of the optional tags accept every line)
OperatorEventuallyValid ==
    /\ WF_vars(GetEnvSelectionMenuChoice /\ pc' # pc)
    /\ WF_vars(InputApplicationName /\ pc' # pc)
    /\ WF_vars(InputApplicationAcronym /\ pc' # pc)
    /\ WF_vars(InputTenantId /\ pc' # pc)
    /\ WF_vars(InputVnetIpAddressSpace /\ pc' # pc)
    /\ WF_vars(InputCostCenter /\ pc' # pc)
    /\ WF_vars(InputDataClassification)
    /\ WF_vars(InputOwnerName /\ pc' # pc)
    /\ WF_vars(InputSquad /\ pc' # pc)
    /\ WF_vars(InputCreateOptionalTagsChoice /\ pc' # pc)
    /\ WF_vars(InputOptionalTags)

SpecInteractiveLive == Init /\ [][NextInteractive]_vars /\ OperatorEventuallyValid

-----------------------------------------------------------------------------
(* Specifications that exercise one part of the pipeline on many inputs *)

RawInfrastructureEnvironments ==
    {"dev", "prod", "DEV", "Prod", "PROD", "qa", "hom", "infradev", "", "pro", "pRoD"}

RawApplicationEnvironments ==
    {"infradev", "dev", "hom", "prod", "InfraDev", "HOM", "Prod", "qa", "", "DEV"}

\* every pairing of the raw environment values
EnvDocs ==
    {[BaseDoc EXCEPT !.infrastructure_environment = i, !.application_environment = a]
        : i \in RawInfrastructureEnvironments, a \in RawApplicationEnvironments}

\* a single run of the script on an empty file system
InitSingleRun == Init /\ dirs = {}

FirstRun(docs) == runs = 0 /\ main_silent(docs)

NextEnv == FirstRun(EnvDocs)

SpecEnv == InitSingleRun /\ [][NextEnv]_vars

\* application names: a prefix, a spelling of 'example', a number, a suffix
NameInputs ==
    {pre \o word \o num \o suf :
        pre \in {"", "x"},
        word \in {"example", "Example", "EXAMPLE", "exAmple", "sample", ""},
        num \in {"", "0", "1", "9", "10", "99", "100", "999", "1000", "01", "090"},
        suf \in {"", "\n", " ", "a", "\n\n"}}

\* the valid environment pairs of the four codes
CodeEnvironments ==
    {<<"dev", "infradev">>, <<"prod", "dev">>, <<"prod", "hom">>, <<"prod", "prod">>}

NameDocs ==
    {[BaseDoc EXCEPT !.infrastructure_environment = e[1], !.application_environment = e[2],
                     !.application_name = n]
        : e \in CodeEnvironments, n \in NameInputs}

NextName == FirstRun(NameDocs) \/ GetApplicationName

SpecName == InitSingleRun /\ [][NextName]_vars

\* network ranges: text before, a first octet, further octets, a last octet,
\* a separator, a prefix length, text after
CidrInputs ==
    {pre \o o1 \o mid \o o4 \o sep \o len \o suf :
        pre \in {"", " ", "x", "1."},
        o1 \in {"0", "10", "255", "256", "01"},
        mid \in {".0.0.", ".0.", ".255.199."},
        o4 \in {"0", "249", "260"},
        sep \in {"/", ""},
        len \in {"0", "16", "32", "33", "08"},
        suf \in {"", " ", "x", "/24", "\n"}}

CidrDocs == {[BaseDoc EXCEPT !.vnet_app_ip_address = v] : v \in CidrInputs}

NextCidr ==
    \/ FirstRun(CidrDocs)
    \/ GetApplicationName
    \/ GetApplicationAcronym
    \/ GetSubscriptionPath
    \/ GetTenantId
    \/ GetVnetAppIpAddress

SpecCidr == InitSingleRun /\ [][NextCidr]_vars

\* mandatory tags: every combination of an ApplicationName tag, an Environment
\* tag and blank or non-blank values of the other tags, for two spellings of
\* the infrastructure environment and two application names
TagDocs ==
    {[BaseDoc EXCEPT !.infrastructure_environment = infra,
                     !.application_name = name,
                     !.mandatory_tags = MTags(name_tag, cc, "Interna", env_tag, owner, sigla, squad)]
        : infra \in {"prod", "PROD"},
          name \in {"checkout", " "},
          name_tag \in {"Checkout", "checkout", "CHECKOUT", "payments", " ", ""},
          env_tag \in {"prod", "PROD", "dev", ""},
          cc \in {"123", "", " "},
          owner \in {"ana", "\t"},
          sigla \in {"AB1", ""},
          squad \in {"sq", " \n"}}
    \cup
    \* the same keys in another order: CostCenter comes first
    {[BaseDoc EXCEPT !.mandatory_tags =
          <<<<"CostCenter", cc>>, <<"ApplicationName", "Checkout">>,
            <<"DataClassification", "Interna">>, <<"Environment", "prod">>,
            <<"OwnerName", owner>>, <<"Sigla", "AB1">>, <<"Squad", "sq">>>>]
        : cc \in {"123", " "}, owner \in {"ana", ""}}

NextTags == FirstRun(TagDocs) \/ ValidationSteps

SpecTags == InitSingleRun /\ [][NextTags]_vars

\* tenant ids: a prefix, a run of digits, a suffix
TenantInputs ==
    {pre \o digits \o suf :
        pre \in {"", "new", "NEW", "New", "x", "new "},
        digits \in {"123456789", "123456789012", "12345678", "1234567890123",
                    "12345678a", "000000000", "000000000000", ""},
        suf \in {"", "\n", " ", "0", "\n\n"}}

\* every tenant id under every code; 'example7' is a valid name under each code
TenantDocs ==
    {[DevDoc EXCEPT !.infrastructure_environment = e[1], !.application_environment = e[2],
                    !.tenant_id = t]
        : e \in CodeEnvironments, t \in TenantInputs}

NextTenant ==
    \/ FirstRun(TenantDocs)
    \/ GetApplicationName
    \/ GetApplicationAcronym
    \/ GetSubscriptionPath
    \/ GetTenantId

SpecTenant == InitSingleRun /\ [][NextTenant]_vars

\* acronyms: three characters, or fewer, and a suffix
AcronymInputs ==
    {c1 \o c2 \o c3 \o suf :
        c1 \in {"A", "Z", "a", "1", "", " A"},
        c2 \in {"B", "b", "1", "_"},
        c3 \in {"1", "0", "9", "C", ""},
        suf \in {"", "\n", "2", "\n\n", " "}}

\* a call of application_acronym_valid on an argument of AcronymInputs
InitAcronymValid ==
    /\ inputs_dict = None
    /\ pc = "application_acronym_valid"
    /\ choice = None
    /\ application_name = None
    /\ application_acronym \in AcronymInputs
    /\ subscription_root_dir = None
    /\ tenant_id = None
    /\ resources_content = None
    /\ subscription_content = None
    /\ mandatory_tags = None
    /\ variables_content = None
    /\ raised = "none"
    /\ dirs = {}
    /\ files = [f \in {} |-> ""]
    /\ file_i = 0
    /\ runs = 0
    /\ user_input = None
    /\ tag_values = <<>>
    /\ optional_tags = None

\* application_acronym_valid(application_acronym, error_message) returns or raises
ApplicationAcronymValid ==
    /\ pc = "application_acronym_valid"
    /\ LET r == application_acronym_valid(application_acronym, "APPLICATION_ACRONYM_JSON")
       IN  IF r.raised # "none"
           THEN Abort(r.raised)
           ELSE pc' = "returned" /\ UNCHANGED raised
    /\ UNCHANGED <<inputs_dict, choice, application_name, application_acronym,
                   subscription_root_dir, tenant_id, resources_content, subscription_content,
                   mandatory_tags, variables_content, dirs, files, file_i, runs,
                   user_input, tag_values>>
    /\ UNCHANGED optional_tags

NextAcronymValid == ApplicationAcronymValid

SpecAcronymValid == InitAcronymValid /\ [][NextAcronymValid]_vars

\* application names for the derivation of the name and the path: those of
\* NameInputs, and names with spaces, dashes, dots and path separators
PathNames ==
    NameInputs \cup
    {"checkout", "My App", "pay-ments", "a/b", "../x", "/etc", "/../../../../x", ".", "a/"}

PathDocs ==
    {[BaseDoc EXCEPT !.infrastructure_environment = e[1], !.application_environment = e[2],
                     !.application_name = n]
        : e \in CodeEnvironments, n \in PathNames}

NextPath ==
    \/ FirstRun(PathDocs)
    \/ GetApplicationName
    \/ GetApplicationAcronym
    \/ GetSubscriptionPath

SpecPath == InitSingleRun /\ [][NextPath]_vars

\* arguments of a call of get_subscription_path: names with and without digits
SubscriptionNameInputs ==
    {pre \o num \o suf :
        pre \in {"Example", "example", "Checkout", "", "My App"},
        num \in {"", "7", "42", "123", "0001"},
        suf \in {"", "b", "-9"}}

\* a call of get_subscription_path(choice, application_name)
InitSubscriptionPath ==
    /\ inputs_dict = None
    /\ pc = "get_subscription_path"
    /\ choice \in DOMAIN ENVIRONMENT_MENU
    /\ application_name \in SubscriptionNameInputs
    /\ application_acronym = "AB1"
    /\ subscription_root_dir = None
    /\ tenant_id = None
    /\ resources_content = None
    /\ subscription_content = None
    /\ mandatory_tags = None
    /\ variables_content = None
    /\ raised = "none"
    /\ dirs = {}
    /\ files = [f \in {} |-> ""]
    /\ file_i = 0
    /\ runs = 0
    /\ user_input = None
    /\ tag_values = <<>>
    /\ optional_tags = None

NextSubscriptionPath == GetSubscriptionPath

SpecSubscriptionPath == InitSubscriptionPath /\ [][NextSubscriptionPath]_vars

\* application names as get_application_name returns them: infradev names
\* with several numbers, plain names, and names with path separators
PathRunNames ==
    {title(n) : n \in {"example1", "EXAMPLE1", "example10", "example100", "example999",
                       "example1\n", "x", "X", "checkout", "x-001/b",
                       "q/../itau-lzprod-x", "x/../../hom/itau-lzhom-x"}}

\* the validated code and application name of a run
PathRuns ==
    {r \in [choice : DOMAIN ENVIRONMENT_MENU, application_name : PathRunNames] :
        application_name_valid(r.choice, r.application_name,
                               "APPLICATION_NAME_INFRADEV_JSON").raised = "none"}

\* a call of get_subscription_path in a run with a validated code and name;
\* inputs_dict holds the validated code and name of another run
InitPathRuns ==
    /\ inputs_dict \in PathRuns
    /\ pc = "get_subscription_path"
    /\ \E r \in PathRuns : choice = r.choice /\ application_name = r.application_name
    /\ application_acronym = "AB1"
    /\ subscription_root_dir = None
    /\ tenant_id = None
    /\ resources_content = None
    /\ subscription_content = None
    /\ mandatory_tags = None
    /\ variables_content = None
    /\ raised = "none"
    /\ dirs = {}
    /\ files = [f \in {} |-> ""]
    /\ file_i = 0
    /\ runs = 0
    /\ user_input = None
    /\ tag_values = <<>>
    /\ optional_tags = None

NextPathRuns == GetSubscriptionPath

SpecPathRuns == InitPathRuns /\ [][NextPathRuns]_vars

\* documents in which every field is, independently, valid or invalid
OrderDocs ==
    {Doc(env[1], env[2], name, acronym, tenant, vnet, opt_choice,
         MTags(name_tag, "123", "Interna", env_tag, "ana", "AB1", "sq"), OTags)
        : env \in {<<"dev", "infradev">>, <<"qa", "infradev">>, <<"prod", "prod">>},
          env_tag \in {"dev", "prod"},
          name \in {"example7", "checkout"},
          acronym \in {"ab1", "abc"},
          tenant \in {"new123456789", "123456789012"},
          vnet \in {"10.0.0.0/16", "10.0.0/16"},
          name_tag \in {"Example7", "payments", " "},
          opt_choice \in {JsonValue("bool", "true"), JsonValue("str", "\"true\""),
                          JsonValue("int", "1")}}

NextOrder ==
    \/ FirstRun(OrderDocs)
    \/ ValidationSteps
    \/ GetOptionalTags
    \/ CreateFile

SpecOrder == InitSingleRun /\ [][NextOrder]_vars

\* documents that opt in or out of the optional tags, with several maps
OptionalTagsDocs ==
    {[BaseDoc EXCEPT !.create_optional_tags = JsonValue("bool", c), !.optional_tags = o]
        : c \in {"true", "false"},
          o \in {JsonValue("null", <<>>), JsonValue("dict", <<>>), OTags,
                 JsonValue("dict", <<<<"ApproverName", "">>, <<"CreatedWith", "Portal">>,
                                     <<"RequesterName", "rui">>, <<"NotificationEmail", "">>,
                                     <<"ProductOwnerEmail", " ">>, <<"AccountType", "">>>>),
                 JsonValue("dict", <<<<"AccountType", "">>, <<"Team", "core">>>>),
                 JsonValue("dict", <<<<"CreatedWith", "">>>>)}}

\* a single run of the script, in either mode
NextBothModes ==
    \/ FirstRun(OptionalTagsDocs)
    \/ ValidationSteps
    \/ GetOptionalTags
    \/ NextInteractive

SpecBothModes == InitSingleRun /\ [][NextBothModes]_vars

\* tag maps for the serializer: up to two entries, with keys and values that
\* hold colons, commas, quotes and spaces
EncoderKeys == {"CostCenter", "Squad", "k:1"}

EncoderValues == {"123", "sq", "", "a,b", "x:y", "q\"q", "a, b: c"}

EncoderMappings ==
    {<<>>}
    \cup {<<<<k, v>>>> : k \in EncoderKeys, v \in EncoderValues}
    \cup {<<<<k[1], v[1]>>, <<k[2], v[2]>>>> :
             k \in {p \in EncoderKeys \X EncoderKeys : p[1] # p[2]},
             v \in EncoderValues \X EncoderValues}

\* a call of json.dumps(obj, indent=4, cls=CustomJSONEncoder) on a map of
\* EncoderMappings
InitEncoder ==
    /\ inputs_dict \in EncoderMappings
    /\ pc = "CustomJSONEncoder_encode"
    /\ choice = None
    /\ application_name = None
    /\ application_acronym = None
    /\ subscription_root_dir = None
    /\ tenant_id = None
    /\ resources_content = None
    /\ subscription_content = None
    /\ mandatory_tags = None
    /\ variables_content = None
    /\ raised = "none"
    /\ dirs = {}
    /\ files = [f \in {} |-> ""]
    /\ file_i = 0
    /\ runs = 0
    /\ user_input = None
    /\ tag_values = <<>>
    /\ optional_tags = None

\* json.dumps(mandatory_tags, indent=4, cls=CustomJSONEncoder) returns
JsonDumps ==
    /\ pc = "CustomJSONEncoder_encode"
    /\ pc' = "returned"
    /\ mandatory_tags' = CustomJSONEncoder_encode(JsonValue("dict", inputs_dict))
    /\ UNCHANGED <<inputs_dict, choice, application_name, application_acronym,
                   subscription_root_dir, tenant_id, resources_content, subscription_content,
                   variables_content, raised, dirs, files, file_i, runs,
                   user_input, tag_values>>
    /\ UNCHANGED optional_tags

NextEncoder == JsonDumps

SpecEncoder == InitEncoder /\ [][NextEncoder]_vars

\* JSON values of create_optional_tags: the two booleans, numbers, strings,
\* null (or the key left out), a list and a map, each with its JSON literal
ChoiceValues ==
    {JsonValue("bool", "true"), JsonValue("bool", "false"),
     JsonValue("int", "0"), JsonValue("int", "1"), JsonValue("int", "2"),
     JsonValue("float", "1.0"),
     JsonValue("str", "\"true\""), JsonValue("str", "\"false\""), JsonValue("str", "\"\""),
     JsonValue("null", "null"), JsonValue("list", "[]"), JsonValue("dict", "{}")}

ChoiceDocs ==
    {[d EXCEPT !.create_optional_tags = c] : d \in {BaseDoc, DevDoc}, c \in ChoiceValues}

NextChoice ==
    \/ FirstRun(ChoiceDocs)
    \/ ValidationSteps
    \/ GetOptionalTags
    \/ CreateFile

SpecChoice == InitSingleRun /\ [][NextChoice]_vars

\* pieces of a template file: text without '$' that does not start with a
\* character of an identifier, and placeholders with the names of the two
\* renderings and with unknown names, plain and braced
TemplateText == {" = \"", "\"\n"}

TemplatePlaceholders ==
    {"$tenant_id", "${vnet_ip_address_space}", "$application_acronym", "$tags_mandatory",
     "${tags_optional}", "$unknown", "${unknown}", "$tenant_idx"}

\* the content of a template file: three pieces, one after the other
TemplateInputs == [1..3 -> TemplateText \cup TemplatePlaceholders]

\* the values substituted: validated ones, and tag texts and a network range
\* that hold the text of a placeholder
TemplateVnetInputs == {"10.0.0.0/16", "$tenant_id 10.0.0.0/16"}

TemplateTagInputs == {"{}", "{\n    \"Squad\" = \"$tenant_id ${tags_optional}\"\n}"}

RECURSIVE template_read(_, _)
\* template_file.read(): the pieces of the file from the i-th on
template_read(pieces, i) ==
    IF i > Len(pieces) THEN "" ELSE pieces[i] \o template_read(pieces, i + 1)

\* a call of generate_resources_content or generate_variables_content after
\* the values have been read, on a template of TemplateInputs
InitTemplate ==
    /\ inputs_dict \in [template_file : TemplateInputs,
                         vnet_app_ip_address : TemplateVnetInputs]
    /\ pc = "safe_substitute"
    /\ choice = None
    /\ application_name = None
    /\ application_acronym = "AB1"
    /\ subscription_root_dir = None
    /\ tenant_id = "123456789012"
    /\ resources_content = None
    /\ subscription_content = None
    /\ mandatory_tags \in TemplateTagInputs
    /\ variables_content = None
    /\ raised = "none"
    /\ dirs = {}
    /\ files = [f \in {} |-> ""]
    /\ file_i = 0
    /\ runs = 0
    /\ user_input = None
    /\ tag_values = <<>>
    /\ optional_tags \in TemplateTagInputs

\* generate_resources_content: the template is read and substituted
GenerateResourcesContent ==
    /\ pc = "safe_substitute"
    /\ pc' = "returned"
    /\ resources_content' =
           safe_substitute(template_read(inputs_dict.template_file, 1),
                           [tenant_id |-> tenant_id,
                            vnet_ip_address_space |-> inputs_dict.vnet_app_ip_address])
    /\ UNCHANGED <<inputs_dict, choice, application_name, application_acronym,
                   subscription_root_dir, tenant_id, subscription_content, mandatory_tags,
                   variables_content, raised, dirs, files, file_i, runs,
                   user_input, tag_values>>
    /\ UNCHANGED optional_tags

\* generate_variables_content: the template is read and substituted
GenerateVariablesContent ==
    /\ pc = "safe_substitute"
    /\ pc' = "returned"
    /\ variables_content' =
           safe_substitute(template_read(inputs_dict.template_file, 1),
                           [application_acronym |-> application_acronym,
                            tags_mandatory |-> mandatory_tags,
                            tags_optional |-> optional_tags])
    /\ UNCHANGED <<inputs_dict, choice, application_name, application_acronym,
                   subscription_root_dir, tenant_id, resources_content, subscription_content,
                   mandatory_tags, raised, dirs, files, file_i, runs,
                   user_input, tag_values>>
    /\ UNCHANGED optional_tags

NextTemplate == GenerateResourcesContent \/ GenerateVariablesContent

SpecTemplate == InitTemplate /\ [][NextTemplate]_vars

\* documents whose mandatory_tags map has the seven keys, lacks some of them,
\* or has other keys
KeyMaps(m) ==
    {m,
     SubSeq(m, 1, 6),
     Append(m, <<"Team", "core">>),
     <<m[1], m[4]>>,
     <<m[1], m[2], m[3], m[4], m[5], <<"Acronym", m[6][2]>>, m[7]>>,
     SubSeq(m, 2, 7)}

KeyDocs ==
    {[d[1] EXCEPT !.mandatory_tags = d[2]] :
        d \in {<<BaseDoc, m>> : m \in KeyMaps(BaseDoc.mandatory_tags)}
              \cup {<<DevDoc, m>> : m \in KeyMaps(DevDoc.mandatory_tags)}}

\* a single run of the script on a document of KeyDocs, or at the prompts
NextKeys ==
    \/ FirstRun(KeyDocs)
    \/ ValidationSteps
    \/ GetOptionalTags
    \/ NextInteractive

SpecKeys == InitSingleRun /\ [][NextKeys]_vars

\* valid documents whose subscription directories are the same, lie one
\* inside the other, lie below a file of another subscription, or are reached
\* through the parent of another directory
MaterializeDocs ==
    {BaseDoc, DevDoc}
    \cup {ProdDoc(n, n) : n \in {"x", "x-001/b", "x-001/variables.hcl/y", "x-001/resources",
                                  "q/../itau-lzprod-x"}}

\* runs of the script in silent mode on the documents of MaterializeDocs
NextMaterialize ==
    \/ main_silent(MaterializeDocs)
    \/ ValidationSteps
    \/ GetOptionalTags
    \/ CreateFile

SpecMaterialize == Init /\ [][NextMaterialize]_vars

-----------------------------------------------------------------------------
(* Properties *)

\* the steps of the current run that have returned or raised
EnvironmentResolved == runs > 0

ApplicationNameStepDone == choice # None /\ pc # "get_application_name"

VnetStepDone == tenant_id # None /\ pc # "get_vnet_app_ip_address"

MandatoryTagsStepDone == subscription_content # None /\ pc # "get_mandatory_tags"

\* v is empty or made of whitespace only
IsBlank(v) == \A i \in 1..Len(v) : At(v, i) \in WhitespaceSet

\* a and b are equal up to the case of their letters
EqualIgnoringCase(a, b) ==
    /\ Len(a) = Len(b)
    /\ \A i \in 1..Len(a) :
          \/ At(a, i) = At(b, i)
          \/ At(a, i) \in UpperSet /\ At(b, i) = LowerOf[At(a, i)]
          \/ At(b, i) \in UpperSet /\ At(a, i) = LowerOf[At(b, i)]

\* the three files of the subscription directory root exist
ThreeFilesExist(root) ==
    \A i \in 1..3 : subscription_files_path_list(root)[i] \in DOMAIN files

\* C1: in data-driven mode get_mandatory_tags succeeds only if every value of
\* the mandatory_tags map, whatever its key or position, is non-blank after
\* trimming; otherwise the run is aborted and no mandatory-tag text is produced.
C1_BlankValueAborts ==
    MandatoryTagsStepDone =>
        LET tags == inputs_dict.mandatory_tags
            some_blank == \E i \in 1..Len(tags) : IsBlank(tags[i][2])
        IN  some_blank => (pc = "aborted" /\ raised # "none" /\ mandatory_tags = None)

\* the error that the documented precedence assigns to a pair
ClassifiedError(pair) ==
    IF pair \in CodeEnvironments THEN "none"
    ELSE IF pair[1] \notin {"dev", "prod"} THEN "INFRASTRUCTURE_ENVIRONMENT_JSON"
    ELSE IF pair[2] \notin {"infradev", "dev", "hom", "prod"} THEN "APPLICATION_ENVIRONMENT_JSON"
    ELSE "ENVIRONMENT_JSON"

\* C2: environment_data_valid accepts the four catalog pairs; for any other pair
\* it raises the infrastructure-environment error when infra is illegal (even if
\* app is illegal too), else the application-environment error when app is
\* illegal, and the combination error only when both values are legal.
C2_EnvironmentPrecedence ==
    EnvironmentResolved =>
        LET given == <<inputs_dict.infrastructure_environment,
                       inputs_dict.application_environment>>
            lowered == <<lower(given[1]), lower(given[2])>>
        IN  /\ environment_data_valid(given).raised = ClassifiedError(given)
            /\ raised = ClassifiedError(lowered)

C2_Witness ==
    /\ EnvironmentResolved
    /\ raised = "INFRASTRUCTURE_ENVIRONMENT_JSON"
    /\ lower(inputs_dict.application_environment) \notin {"infradev", "dev", "hom", "prod"}

\* the code of a valid pair, as the catalog table gives it
CodeOf(pair) ==
    CASE pair = <<"dev", "infradev">> -> "1"
      [] pair = <<"prod", "dev">> -> "2"
      [] pair = <<"prod", "hom">> -> "3"
      [] pair = <<"prod", "prod">> -> "4"

ValidationErrors ==
    {"ENVIRONMENT_JSON", "INFRASTRUCTURE_ENVIRONMENT_JSON", "APPLICATION_ENVIRONMENT_JSON",
     "APPLICATION_NAME_INFRADEV_JSON", "APPLICATION_ACRONYM_JSON", "TENANT_ID_JSON",
     "TENANT_ID_INFRADEV_JSON", "VNET_CIDR_JSON", "CREATE_OPTIONAL_TAGS_CHOICE_JSON",
     "MANDATORY_TAGS_EMPTY_JSON", "MANDATORY_TAGS_APPLICATION_NAME_JSON",
     "MANDATORY_TAGS_ENVIRONMENT_JSON"}

\* every validation of the current document succeeds
AllValidated ==
    /\ get_environment_data(TRUE, inputs_dict).raised = "none"
    /\ get_application_name(TRUE, choice, inputs_dict).raised = "none"
    /\ get_application_acronym(TRUE, inputs_dict).raised = "none"
    /\ get_tenant_id(TRUE, choice, inputs_dict).raised = "none"
    /\ get_vnet_app_ip_address(TRUE, inputs_dict).raised = "none"
    /\ get_mandatory_tags(TRUE, choice, inputs_dict, application_name,
                          application_acronym).raised = "none"
    /\ get_create_optional_tags_choice(TRUE, inputs_dict).raised = "none"

\* C4: in data-driven mode no directory or file is created before every
\* validation has succeeded and the three bodies are rendered; a run aborted by
\* a validation error has not entered the loop that writes the files.
C4_NoWriteBeforeValidation ==
    /\ [](raised \in ValidationErrors => file_i = 0)
    /\ [][(dirs' # dirs \/ files' # files) =>
            /\ pc = "create_files"
            /\ raised = "none"
            /\ AllValidated
            /\ resources_content # None
            /\ subscription_content # None
            /\ variables_content # None]_vars

C4_Witness ==
    /\ runs = 2
    /\ pc = "aborted"
    /\ raised = "CREATE_OPTIONAL_TAGS_CHOICE_JSON"
    /\ files # <<>>

\* C5: a second materialization against a subscription path whose three files
\* were written by an earlier run fails with the already-exists failure at its
\* first step, and no existing file is ever removed or modified.
C5_SecondRunFails ==
    /\ [][(pc = "create_files" /\ ThreeFilesExist(subscription_root_dir)) =>
            /\ pc' = "aborted"
            /\ raised' = "FileExistsError"
            /\ UNCHANGED <<dirs, files>>]_vars
    /\ [][\A f \in DOMAIN files : f \in DOMAIN files' /\ files'[f] = files[f]]_vars

C5_Witness ==
    /\ runs = 2
    /\ pc = "aborted"
    /\ raised = "FileExistsError"
    /\ ThreeFilesExist(subscription_root_dir)

\* the last Len(suffix) characters of s are suffix
EndsWith(s, suffix) ==
    Len(s) >= Len(suffix) /\ SubSeq(s, Len(s) - Len(suffix) + 1, Len(s)) = suffix

\* C6: whatever the application name and environment, variables.hcl holds the
\* 'Variables' header, resources/terragrunt.hcl the 'Resources' header and
\* subscription/terragrunt.hcl the 'Subscription' header, each followed by its
\* own body; no file receives the header or body of another file.
C6_EachFileOwnContent ==
    \A f \in DOMAIN files :
        /\ EndsWith(f, "/variables.hcl") =>
              Contains(files[f], "\n# 'Variables' file for application '")
        /\ EndsWith(f, "/resources/terragrunt.hcl") =>
              Contains(files[f], "\n# 'Resources' configuration file for application '")
        /\ EndsWith(f, "/subscription/terragrunt.hcl") =>
              Contains(files[f], "\n# 'Subscription' configuration file for application '")

\* C7: in data-driven mode mandatory-tag reconciliation succeeds only if the
\* Environment tag equals the infrastructure_environment of the catalog entry
\* of the resolved code.
C7_EnvironmentTagIsCatalogValue ==
    (MandatoryTagsStepDone /\ raised = "none") =>
        dict_get(inputs_dict.mandatory_tags, "Environment") = ENVIRONMENT_MENU[choice][1]

\* C8: in data-driven mode mandatory-tag reconciliation succeeds only if the
\* ApplicationName tag equals the validated application name ignoring letter
\* case; a difference in case alone is never rejected, and a real mismatch
\* raises the ApplicationName error, not the blank-value error.
C8_ApplicationNameTagIgnoringCase ==
    MandatoryTagsStepDone =>
        LET same == EqualIgnoringCase(dict_get(inputs_dict.mandatory_tags, "ApplicationName"),
                                      application_name)
        IN  /\ raised = "none" => same
            /\ same => raised # "MANDATORY_TAGS_APPLICATION_NAME_JSON"
            /\ ~same => raised = "MANDATORY_TAGS_APPLICATION_NAME_JSON"

C8_Witness ==
    /\ MandatoryTagsStepDone
    /\ raised = "none"
    /\ dict_get(inputs_dict.mandatory_tags, "ApplicationName") = "CHECKOUT"
    /\ application_name = "Checkout"

\* the decimal numerals of lo..hi, without leading zeros
Numerals(lo, hi) == {ToString(k) : k \in lo..hi}

OctetNumerals == Numerals(0, 255)

PrefixLengthNumerals == Numerals(0, 32)

\* s is a.b.c.d/n with four octets in 0..255 and n in 0..32, and nothing else
IsCidr(s) ==
    \E i1, i2, i3, i4 \in 1..Len(s) :
        /\ i1 < i2 /\ i2 < i3 /\ i3 < i4
        /\ At(s, i1) = "." /\ At(s, i2) = "." /\ At(s, i3) = "." /\ At(s, i4) = "/"
        /\ SubSeq(s, 1, i1 - 1) \in OctetNumerals
        /\ SubSeq(s, i1 + 1, i2 - 1) \in OctetNumerals
        /\ SubSeq(s, i2 + 1, i3 - 1) \in OctetNumerals
        /\ SubSeq(s, i3 + 1, i4 - 1) \in OctetNumerals
        /\ SubSeq(s, i4 + 1, Len(s)) \in PrefixLengthNumerals

\* C9: vnet_app_ip_address_valid accepts a string if and only if the whole
\* string is a.b.c.d/n with four octets in 0..255 and a prefix length in 0..32;
\* every other string raises the network-range error.
C9_CidrWholeString ==
    VnetStepDone =>
        IF IsCidr(inputs_dict.vnet_app_ip_address)
        THEN raised = "none"
        ELSE raised = "VNET_CIDR_JSON"

\* 'Example' followed by an integer of 1..999 without leading zeros
ExampleNames == {"Example" \o n : n \in Numerals(1, 999)}

\* C10: for the infradev code application_name_valid accepts a name if and
\* only if its title-cased form is exactly 'Example' followed by an integer of
\* 1..999 without leading zeros; for the other codes it accepts every name.
C10_ExampleNameExact ==
    ApplicationNameStepDone =>
        IF ENVIRONMENT_MENU[choice][2] = "infradev"
        THEN IF title(inputs_dict.application_name) \in ExampleNames
             THEN raised = "none"
             ELSE raised = "APPLICATION_NAME_INFRADEV_JSON"
        ELSE raised = "none"

TenantIdStepDone == subscription_root_dir # None /\ pc # "get_tenant_id"

\* the strings made of n decimal digits
IsDigits(s, n) == Len(s) = n /\ \A i \in 1..n : At(s, i) \in DigitSet

\* C11: tenant_id_valid accepts, for the infradev code, exactly 'new' followed
\* by 9 decimal digits and, for every other code, exactly 12 decimal digits; a
\* rejection raises the error message of the environment class that was checked.
C11_TenantIdExact ==
    TenantIdStepDone =>
        LET t == inputs_dict.tenant_id
            infradev == ENVIRONMENT_MENU[choice][2] = "infradev"
            well_formed == IF infradev
                           THEN Len(t) = 12 /\ SubSeq(t, 1, 3) = "new"
                                /\ IsDigits(SubSeq(t, 4, 12), 9)
                           ELSE IsDigits(t, 12)
        IN  IF well_formed
            THEN raised = "none" /\ tenant_id = t
            ELSE /\ pc = "aborted"
                 /\ tenant_id = None
                 /\ raised = IF infradev THEN "TENANT_ID_INFRADEV_JSON" ELSE "TENANT_ID_JSON"

\* C12: application_acronym_valid accepts a string if and only if it consists
\* of exactly three characters, two uppercase letters A-Z followed by one digit
\* 0-9; every other string, 'ab1', 'ABC' and 'A1B' included, is rejected with
\* the acronym error.
C12_AcronymExact ==
    pc # "application_acronym_valid" =>
        LET a == application_acronym
            well_formed == /\ Len(a) = 3
                           /\ SubSeq(a, 1, 1) \in UpperSet
                           /\ SubSeq(a, 2, 2) \in UpperSet
                           /\ SubSeq(a, 3, 3) \in DigitSet
        IN  IF well_formed
            THEN pc = "returned" /\ raised = "none"
            ELSE pc = "aborted" /\ raised = "APPLICATION_ACRONYM_JSON"

SubscriptionPathStepDone == application_acronym # None /\ pc # "get_subscription_path"

\* the decimal numeral of k left-padded with zeros to three digits
Pad3(k) ==
    IF k < 10 THEN "00" \o ToString(k)
    ELSE IF k < 100 THEN "0" \o ToString(k)
    ELSE ToString(k)

\* C13: for the infradev code and every application name accepted by the
\* validator, which is some letter casing of 'example' followed by k in 1..999,
\* the subscription name is derived without failure and it is
\* 'itaudev-lzdev-example-' followed by k padded to three digits.
C13_InfradevNamePadded ==
    (SubscriptionPathStepDone /\ ENVIRONMENT_MENU[choice][2] = "infradev") =>
        /\ raised = "none"
        /\ \E k \in 1..999 :
              /\ EqualIgnoringCase(inputs_dict.application_name, "example" \o ToString(k))
              /\ EndsWith(subscription_root_dir,
                          "/dev/infradev/itaudev-lzdev-example-" \o Pad3(k))

\* the text of path after the directory of the environment pair of code k
NameSegment(k, path) ==
    LET base == SUBSCRIPTION_DIR \o "/" \o ENVIRONMENT_MENU[k][1] \o "/"
                \o ENVIRONMENT_MENU[k][2] \o "/"
    IN  IF Len(path) >= Len(base) /\ SubSeq(path, 1, Len(base)) = base
        THEN SubSeq(path, Len(base) + 1, Len(path))
        ELSE None

\* C14: for each non-infradev code and every application name the subscription
\* name is 'itau-lz' + application_environment + '-' + the lower-cased
\* application name + '-001'.
C14_PlainNameLowered ==
    (SubscriptionPathStepDone /\ ENVIRONMENT_MENU[choice][2] # "infradev") =>
        LET prefix == "itau-lz" \o ENVIRONMENT_MENU[choice][2] \o "-"
            segment == NameSegment(choice, subscription_root_dir)
            middle == SubSeq(segment, Len(prefix) + 1, Len(segment) - 4)
        IN  /\ raised = "none"
            /\ segment # None
            /\ Len(segment) = Len(prefix) + Len(application_name) + 4
            /\ SubSeq(segment, 1, Len(prefix)) = prefix
            /\ EndsWith(segment, "-001")
            /\ EqualIgnoringCase(middle, application_name)
            /\ \A i \in 1..Len(middle) : At(middle, i) \notin UpperSet

C14_Witness ==
    /\ SubscriptionPathStepDone
    /\ choice = "3"
    /\ application_name = "My App"
    /\ subscription_root_dir = SUBSCRIPTION_DIR \o "/prod/hom/itau-lzhom-my app-001"

\* C15: get_subscription_name, called for the infradev code with a name that
\* holds no digit, signals the MalformedApplicationName validation error and
\* fails in no other way.
C15_NoDigitRunSignalled ==
    (SubscriptionPathStepDone /\ ENVIRONMENT_MENU[choice][2] = "infradev"
        /\ \A i \in 1..Len(application_name) : At(application_name, i) \notin DigitSet) =>
        /\ pc = "aborted"
        /\ raised = "MALFORMED_APPLICATION_NAME"

\* C16: for every code and every application name that passes validation the
\* path is the landing-zones root followed by exactly three segments: the
\* infrastructure_environment and the application_environment of the catalog
\* and the subscription name as one single segment.
C16_PathHasThreeSegments ==
    (SubscriptionPathStepDone /\ raised = "none") =>
        LET segment == NameSegment(choice, subscription_root_dir)
        IN  /\ segment # None
            /\ segment \notin {"", ".", ".."}
            /\ \A i \in 1..Len(segment) : At(segment, i) # "/"

\* the error of the earliest invalid field of doc, in the order environment
\* pair, application_name, application_acronym, tenant_id, vnet_app_ip_address,
\* mandatory tags, create_optional_tags; "none" when every field is valid
EarliestError(doc) ==
    LET env == get_environment_data(TRUE, doc)
    IN  IF env.raised # "none" THEN env.raised
        ELSE
    LET c == env.value[1]
        name == get_application_name(TRUE, c, doc)
        acronym == get_application_acronym(TRUE, doc)
        tenant == get_tenant_id(TRUE, c, doc)
        vnet == get_vnet_app_ip_address(TRUE, doc)
        opt_choice == get_create_optional_tags_choice(TRUE, doc)
    IN  IF name.raised # "none" THEN name.raised
        ELSE IF acronym.raised # "none" THEN acronym.raised
        ELSE IF tenant.raised # "none" THEN tenant.raised
        ELSE IF vnet.raised # "none" THEN vnet.raised
        ELSE IF get_mandatory_tags(TRUE, c, doc, name.value, acronym.value).raised # "none"
             THEN get_mandatory_tags(TRUE, c, doc, name.value, acronym.value).raised
        ELSE opt_choice.raised

\* the results of the steps of a run, in the order of the fields
StepResults ==
    <<choice, application_name, application_acronym, tenant_id, resources_content,
      mandatory_tags, variables_content>>

\* the position in StepResults of the step that raises e
StepOf(e) ==
    CASE e \in {"ENVIRONMENT_JSON", "INFRASTRUCTURE_ENVIRONMENT_JSON",
                "APPLICATION_ENVIRONMENT_JSON"} -> 1
      [] e = "APPLICATION_NAME_INFRADEV_JSON" -> 2
      [] e = "APPLICATION_ACRONYM_JSON" -> 3
      [] e \in {"TENANT_ID_JSON", "TENANT_ID_INFRADEV_JSON"} -> 4
      [] e = "VNET_CIDR_JSON" -> 5
      [] e \in {"MANDATORY_TAGS_EMPTY_JSON", "MANDATORY_TAGS_APPLICATION_NAME_JSON",
                "MANDATORY_TAGS_ENVIRONMENT_JSON"} -> 6
      [] e = "CREATE_OPTIONAL_TAGS_CHOICE_JSON" -> 7

\* C17: in data-driven mode the fields are validated in the fixed order
\* environment pair, application_name, application_acronym, tenant_id,
\* vnet_app_ip_address, mandatory tags, create_optional_tags; the error raised
\* is the one of the earliest invalid field, it ends the run at once, and no
\* later validator and no file operation runs after it.
C17_FailFastInOrder ==
    /\ [](\A i, j \in 1..Len(StepResults) :
             (i < j /\ StepResults[j] # None) => StepResults[i] # None)
    /\ [](pc \in {"aborted", "create_files", "done"} =>
             raised = EarliestError(inputs_dict))
    /\ [](raised # "none" =>
             /\ pc = "aborted"
             /\ \A i \in StepOf(raised)..Len(StepResults) : StepResults[i] = None
             /\ file_i = 0 /\ dirs = {} /\ DOMAIN files = {})
    /\ [][raised = "none" /\ raised' # "none" =>
             /\ pc' = "aborted"
             /\ raised' = EarliestError(inputs_dict')]_vars
    /\ [][runs > 0 => raised = "none"]_vars

C17_Witness ==
    /\ pc = "aborted"
    /\ raised = "APPLICATION_ACRONYM_JSON"
    /\ get_tenant_id(TRUE, choice, inputs_dict).raised # "none"
    /\ get_vnet_app_ip_address(TRUE, inputs_dict).raised # "none"
    /\ get_create_optional_tags_choice(TRUE, inputs_dict).raised # "none"

\* the prompts of the interactive mode that validate the line they read
ValidatedPrompts ==
    {"input_application_name", "input_application_acronym", "input_tenant_id",
     "input_vnet_ip_address_space", "input_cost_center", "input_data_classification",
     "input_owner_name", "input_squad", "input_create_optional_tags"}

\* the validation of the line l read at the prompt p fails
Rejected(p, l) ==
    CASE p = "input_application_name" ->
             application_name_valid(choice, title(l), "APPLICATION_NAME_INFRADEV").raised # "none"
      [] p = "input_application_acronym" ->
             application_acronym_valid(upper(l), "APPLICATION_ACRONYM").raised # "none"
      [] p = "input_tenant_id" ->
             tenant_id_valid(choice, l, "TENANT_ID_INFRADEV", "TENANT_ID").raised # "none"
      [] p = "input_vnet_ip_address_space" ->
             vnet_app_ip_address_valid(l, "VNET_CIDR").raised # "none"
      [] p \in {"input_cost_center", "input_data_classification", "input_owner_name",
                "input_squad"} -> IsBlank(l)
      [] p = "input_create_optional_tags" ->
             int(l).raised # "none" \/ int(l).value \notin {"1", "2"}

\* the step leaves the run at the same prompt: nothing but the line read changes
SamePromptAgain ==
    /\ pc' = pc
    /\ raised' = "none"
    /\ UNCHANGED <<choice, application_name, application_acronym, subscription_root_dir,
                   tenant_id, resources_content, subscription_content, mandatory_tags,
                   variables_content, tag_values, dirs, files, file_i>>

TargetFile == subscription_files_path_list(subscription_root_dir)[file_i]

\* C19: the Materializer creates a directory only when it is absent and each
\* file exclusively: the already-exists failure is caused by a target file
\* that exists, never by a directory that exists, and no existing file is
\* overwritten or truncated.
C19_OnlyExistingFileFails ==
    /\ [][(pc = "create_files" /\ raised' = "FileExistsError") =>
             TargetFile \in DOMAIN files]_vars
    /\ [][(pc = "create_files" /\ TargetFile \in DOMAIN files) =>
             /\ pc' = "aborted"
             /\ raised' = "FileExistsError"
             /\ files' = files]_vars

\* the entries of a tag map from the i-th on, one line 'key = "value"' each
RECURSIVE TagLines(_, _)
TagLines(pairs, i) ==
    IF i > Len(pairs) THEN ""
    ELSE "    \"" \o pairs[i][1] \o "\" = \"" \o pairs[i][2] \o "\"\n" \o TagLines(pairs, i + 1)

\* the text of a tag map whose keys and values need no escape
TagText(pairs) == IF Len(pairs) = 0 THEN "{}" ELSE "{\n" \o TagLines(pairs, 1) \o "}"

\* C20: the optional-tag mapping that is emitted is empty whenever the caller
\* did not opt in, in both modes and even if a map is supplied; in data-driven
\* mode with opt-in it is exactly the supplied optional_tags map, with no key
\* added or removed and no blank value defaulted.
C20_OptionalTagsVerbatim ==
    optional_tags # None =>
        IF user_input = None
        THEN IF inputs_dict.create_optional_tags.v = "false"
             THEN optional_tags = TagText(<<>>)
             ELSE inputs_dict.optional_tags.type = "dict" =>
                      optional_tags = TagText(inputs_dict.optional_tags.v)
        ELSE user_input \in {"2", " 2", "02"} => optional_tags = TagText(<<>>)

C20_Witness ==
    /\ user_input = None
    /\ pc = "done"
    /\ inputs_dict.create_optional_tags.v = "true"
    /\ inputs_dict.optional_tags = OTags
    /\ optional_tags = "{\n    \"ApproverName\" = \"bia\"\n    \"CreatedWith\" = \"\"\n"
                       \o "    \"AccountType\" = \"App\"\n}"

\* the six lines typed at the prompts of get_optional_tags, in the order of
\* the prompts: ApproverName, CreatedWith, RequesterName, NotificationEmail,
\* ProductOwnerEmail, AccountType
OptionalTagsEntered == SubSeq(tag_values, 5, 10)

OptionalTagsRead == user_input # None /\ Len(tag_values) = 10 /\ optional_tags # None

Serialized == pc = "returned" /\ mandatory_tags # None

\* s holds no character that the JSON encoder escapes or that
\* CustomJSONEncoder.encode rewrites
PlainText(s) ==
    \A i \in 1..Len(s) : At(s, i) \notin {":", ",", "\"", "\\", "\n", "\r", "\t"}

OptionalTagsStepDone == mandatory_tags # None /\ pc # "get_optional_tags"

\* C23: create_optional_tags_choice_valid accepts exactly the booleans true and
\* false; any other value (0, 1, 'true', 'false', null) is rejected with the
\* optional-tags-choice type error and is not coerced: no optional-tag text is
\* produced for it.
C23_ChoiceStrictlyBoolean ==
    OptionalTagsStepDone =>
        LET c == inputs_dict.create_optional_tags
        IN  IF c \in {JsonValue("bool", "true"), JsonValue("bool", "false")}
            THEN /\ raised # "CREATE_OPTIONAL_TAGS_CHOICE_JSON"
                 /\ optional_tags # None
                 /\ c.v = "false" => optional_tags = "{}"
                 /\ c.v = "true" /\ inputs_dict.optional_tags.type = "dict"
                        /\ Len(inputs_dict.optional_tags.v) > 0 => optional_tags # "{}"
            ELSE /\ pc = "aborted"
                 /\ raised = "CREATE_OPTIONAL_TAGS_CHOICE_JSON"
                 /\ optional_tags = None
                 /\ variables_content = None

C23_Witness ==
    /\ OptionalTagsStepDone
    /\ inputs_dict.create_optional_tags = JsonValue("int", "1")
    /\ inputs_dict.optional_tags = OTags
    /\ raised = "CREATE_OPTIONAL_TAGS_CHOICE_JSON"
    /\ files = [f \in {} |-> ""]

\* the name of the placeholder piece: what follows '$', without the braces
PlaceholderName(piece) ==
    IF At(piece, 2) = "{" THEN SubSeq(piece, 3, Len(piece) - 1)
    ELSE SubSeq(piece, 2, Len(piece))

\* what a piece of the template becomes: the value of a placeholder with a
\* supplied name, and the piece itself otherwise
RenderedPiece(piece, mapping) ==
    IF At(piece, 1) = "$" /\ PlaceholderName(piece) \in DOMAIN mapping
    THEN mapping[PlaceholderName(piece)]
    ELSE piece

RenderedPieces(pieces, mapping) ==
    RenderedPiece(pieces[1], mapping) \o RenderedPiece(pieces[2], mapping)
        \o RenderedPiece(pieces[3], mapping)

\* C24: the rendering of the resources and of the variables bodies replaces,
\* in one pass, every placeholder whose name is supplied by its value, leaves
\* every other placeholder as it is, without an error, and does not expand
\* placeholder text that a substituted value holds.
C24_SinglePassTolerantRendering ==
    pc = "returned" =>
        /\ raised = "none"
        /\ resources_content # None =>
               resources_content =
                   RenderedPieces(inputs_dict.template_file,
                                  [tenant_id |-> tenant_id,
                                   vnet_ip_address_space |-> inputs_dict.vnet_app_ip_address])
        /\ variables_content # None =>
               variables_content =
                   RenderedPieces(inputs_dict.template_file,
                                  [application_acronym |-> application_acronym,
                                   tags_mandatory |-> mandatory_tags,
                                   tags_optional |-> optional_tags])

C24_Witness ==
    /\ pc = "returned"
    /\ inputs_dict.template_file = <<"$tags_mandatory", "${unknown}", "$tenant_id">>
    /\ mandatory_tags = "{\n    \"Squad\" = \"$tenant_id ${tags_optional}\"\n}"
    /\ variables_content = mandatory_tags \o "${unknown}$tenant_id"

MandatoryTagKeys ==
    {"ApplicationName", "CostCenter", "DataClassification", "Environment", "OwnerName",
     "Sigla", "Squad"}

\* the number of lines of the serialized map that hold an entry: the encoder
\* escapes the newlines of keys and values, so every newline but the last one
\* starts an entry
EntryCount(text) == Cardinality({i \in 1..Len(text) : At(text, i) = "\n"}) - 1

\* the serialized map has an entry with the key k
HasEntry(text, k) == Contains(text, "\n    \"" \o k \o "\" = \"")

\* C25: whenever mandatory tags are emitted, in either mode, the map has
\* exactly the seven keys ApplicationName, CostCenter, DataClassification,
\* Environment, OwnerName, Sigla and Squad.
C25_ExactlySevenKeys ==
    mandatory_tags # None =>
        /\ \A k \in MandatoryTagKeys : HasEntry(mandatory_tags, k)
        /\ EntryCount(mandatory_tags) = 7

\* C26: the only step of the loop over the files that fails because something
\* exists is its first one, the creation of the subscription root directory,
\* before any file is written: a run that fails there has created or changed
\* no directory and no file, and a run that passes it creates the three files.
C26_AllOrNothing ==
    /\ [][(pc = "create_files" /\ pc' = "aborted") =>
             /\ file_i = 1
             /\ dirs' = dirs
             /\ files' = files]_vars
    /\ [][(pc = "create_files" /\ raised' = "FileExistsError") =>
             exists(subscription_root_dir)]_vars
    /\ [][(pc = "create_files" /\ file_i > 1) =>
             /\ pc' \in {"create_files", "done"}
             /\ file_i' = file_i + 1 \/ pc' = "done"
             /\ pc' = "done" => \A i \in 1..3 :
                    resolve(subscription_files_path_list(subscription_root_dir)[i])
                        \in DOMAIN files']_vars

\* the JSON text of the string s is s between double quotes, without escapes
NeedsNoEscape(s) ==
    \A i \in 1..Len(s) : At(s, i) \notin {"\"", "\\", "\n", "\r", "\t"}

\* C27: serialization changes only the structure: every key and every value
\* is in the text with exactly the characters of the input, a value that holds
\* ':' or ',' included.
C27_KeysAndValuesUnchanged ==
    Serialized =>
        \A i \in 1..Len(inputs_dict) :
            NeedsNoEscape(inputs_dict[i][1]) /\ NeedsNoEscape(inputs_dict[i][2]) =>
                Contains(mandatory_tags,
                         "\n    \"" \o inputs_dict[i][1] \o "\" = \"" \o inputs_dict[i][2]
                             \o "\"\n")

\* the mandatory tags of an interactive run have been serialized
InteractiveTagsEmitted == user_input # None /\ mandatory_tags # None

\* C28: in interactive mode the mandatory tags emitted have ApplicationName
\* equal to the validated application name, Environment equal to the
\* infrastructure_environment of the chosen code, Sigla equal to the validated
\* acronym, and seven values that are non-blank after trimming.
C28_InteractiveTagsInvariants ==
    InteractiveTagsEmitted =>
        LET emitted == MTags(application_name, tag_values[1], tag_values[2],
                             ENVIRONMENT_MENU[choice][1], tag_values[3],
                             application_acronym, tag_values[4])
        IN  /\ mandatory_tags = TagText(emitted)
            /\ \A i \in 1..7 : ~IsBlank(emitted[i][2])

\* the prompts of the interactive mode, in the order of the calls of main and
\* create_subscription_files
PromptOrder ==
    <<"get_env_selection_menu_choice", "input_application_name", "input_application_acronym",
      "input_tenant_id", "input_vnet_ip_address_space", "input_cost_center",
      "input_data_classification", "input_owner_name", "input_squad",
      "input_create_optional_tags">>

PromptIndex(p) == CHOOSE i \in 1..Len(PromptOrder) : PromptOrder[i] = p

AtPrompt == \E i \in 1..Len(PromptOrder) : PromptOrder[i] = pc

\* the prompts whose loop has a line to reject: every validated prompt but the
\* one of DataClassification, and the one of the application name only for
\* the infradev code
RetryPrompt ==
    /\ AtPrompt
    /\ pc # "input_data_classification"
    /\ pc = "input_application_name" => ENVIRONMENT_MENU[choice][2] = "infradev"

\* C29: in interactive mode, if the operator eventually types an accepted line
\* at every prompt, the run leaves every retry loop and reaches the creation of
\* the files, and the prompts come in the order environment menu, application
\* name, acronym, tenant id, network range, mandatory tags, optional-tags
\* choice; a rejected line leaves the run at the same prompt, any number of times.
C29_EventuallyMaterializes ==
    /\ (pc = "get_env_selection_menu_choice") ~> (pc = "create_files")
    /\ [][(AtPrompt /\ pc' # pc) =>
             IF pc = "input_create_optional_tags"
             THEN pc' \in {"input_optional_tags", "create_files"}
             ELSE pc' = PromptOrder[PromptIndex(pc) + 1]]_vars
    /\ [](RetryPrompt => ENABLED (NextInteractive /\ pc' = pc))

C29_Witness ==
    /\ pc = "create_files"
    /\ file_i = 1
    /\ choice = "1"
    /\ user_input = "02"
    /\ application_name = "Example7"
    /\ Len(tag_values) = 4

\* the subscription directory of the other run
OtherRunPath ==
    get_subscription_path(inputs_dict.choice, inputs_dict.application_name).value[1]

\* the two runs differ in the code or in the application name, letter case
\* ignored
RunsDiffer ==
    \/ choice # inputs_dict.choice
    \/ lower(application_name) # lower(inputs_dict.application_name)

\* C30: two runs whose environment code or application name (ignoring letter
\* case) differ get different subscription paths, and the paths name different
\* directories, so that the exclusive creation of the subscription directory
\* of one run never fails because of the directory of the other.
C30_PathsInjective ==
    (pc = "get_tenant_id" /\ RunsDiffer) =>
        /\ subscription_root_dir # OtherRunPath
        /\ resolve(subscription_root_dir) # resolve(OtherRunPath)

====
